---- MODULE Spec2Model ----
(***************************************************************************)
(* Fleet liveness / recording orchestration of the video surveillance      *)
(* system: the coordinator (server.py: registry, health-check loop,        *)
(* recording supervisor, retention sweep, event log) and the edge node     *)
(* (pi_camera_client.py: frame source, motion detector).                   *)
(***************************************************************************)
EXTENDS Integers, Sequences, FiniteSets, Bags, TLC

\* ------------------------------------------------------------------------
\* Bounds of the model
\* ------------------------------------------------------------------------
MaxCamId == 2
MaxRecCams == 1
MaxProcs == 2
MaxThreads == 2
MaxEvents == 2
MaxClock == 1
MaxRuns == 2
MaxFrame == 2
MaxFrameCount == 2
MaxTime == 24
MaxIsapi == 2
MaxReaders == 2

\* ------------------------------------------------------------------------
\* Program constants
\* ------------------------------------------------------------------------
MAX_AGE_HOURS == 48
HEALTH_CHECK_INTERVAL == 30
SecondsPerHour == 3600
cooldown == 10
EVENTS_MAX == 1000
EVENTS_KEPT == 500
HalfSecondsPerSecond == 2
DEFAULT_QUALITY == 80
DEFAULT_LIMIT == 50

\* ------------------------------------------------------------------------
\* Input domains
\* ------------------------------------------------------------------------
Users == {"u1", "u2"}
Addrs == {"", "A"}
ProbeResults == {"ok", "status", "error"}
PushedTypes == {"motion", "unknown"}
CamIds == 1..MaxCamId
Pids == 1..MaxProcs

VARIABLES
    cameras,              \* table cameras: id -> row (committed state)
    next_id,              \* AUTOINCREMENT counter of table cameras
    events,               \* table events, in insertion order
    recording_processes,  \* dict camera_id -> Popen handle (a pid of procs)
    procs,                \* the encoder processes: pid -> camera and status
    threads,              \* bag of the threads in flight (start_recording, requests)
    hc,                   \* the health_check_loop thread
    del,                  \* an api_delete_camera request in flight
    dirs,                 \* camera directories under RECORDINGS_DIR
    files,                \* segment files under the camera directories
    clock,                \* wall clock, in health-check intervals
    sw,                   \* the running call of cleanup_old_recordings
    runs,                 \* record of the direct calls of cleanup_old_recordings
    went_online,          \* cameras that the last two commits of the loop turned online
    probe_failed,         \* cameras whose latest committed probe was a failure
    stream,               \* edge node: the CameraStream object and its _read_loop
    jpeg,                 \* edge node: what the last call of get_frame_jpeg returned
    good,                 \* edge node: the frame of the last successful read
    motion,               \* edge node: the MotionDetector object
    etime,                \* edge node: time.time(), in half seconds after Epoch
    emitted,              \* edge node: the times of all motion events emitted
    posts,                \* edge node: the POSTs of _notify_server and their outcome
    lock,                 \* edge node: CameraStream.lock and the threads at it
    reg,                  \* edge node: the register_with_server thread
    http,                 \* edge node: the last relay request and its response
    isapi,                \* edge node: the ISAPI requests the camera has answered
    last                  \* the operation that produced this state

vars == <<cameras, next_id, events, recording_processes, procs,
                threads, hc, del, dirs, files, clock, sw, runs, went_online,
                probe_failed, stream, jpeg, good, motion, etime, emitted, posts,
                lock, reg, http, isapi, last>>

\* the state of the edge node, and the state of the coordinator
edge == <<stream, jpeg, good, motion, etime, emitted, posts, lock, reg, http, isapi>>
rest == <<lock, reg>>
relay == <<http, isapi>>
server == <<cameras, next_id, events, recording_processes, procs, threads,
            hc, del, dirs, files, clock, sw, runs, went_online, probe_failed>>

\* ------------------------------------------------------------------------
\* Helpers over the state
\* ------------------------------------------------------------------------
NoProc == [cam |-> 0, st |-> "free"]
NoDelete == [pc |-> "idle", cam |-> 0, live |-> FALSE, how |-> "none", proc |-> 0]
NoTxn == [open |-> FALSE, writes |-> <<>>]

\* proc.poll() is None
Poll(p) == procs[p].st = "running"

\* the check of start_recording, lines 143-145, and of health_check_loop,
\* lines 271-272: a handle is registered and its process still runs
HasLiveHandle(cam_id) ==
    /\ cam_id \in DOMAIN recording_processes
    /\ Poll(recording_processes[cam_id])

\* the running encoder processes that were spawned for a camera
LiveProcs(cam_id) ==
    {p \in Pids : procs[p].cam = cam_id /\ procs[p].st = "running"}

\* a process that has exited and that neither a handle of the table nor the
\* handle held by a running call of stop_recording refers to can never be
\* seen by the program again: its pid is free for the next Popen
ReapedBut(ps, tbl, held) ==
    [p \in Pids |-> IF /\ ps[p].st = "exited"
                        /\ \A c \in DOMAIN tbl : tbl[c] # p
                        /\ p # held
                      THEN NoProc ELSE ps[p]]
Reaped(ps, tbl) == ReapedBut(ps, tbl, del.proc)

\* get_camera_by_user / SELECT * FROM cameras WHERE pi_user = ?
IdsOfUser(u) == {i \in DOMAIN cameras : cameras[i].pi_user = u}

\* _log_event: INSERT INTO events
LogEvent(log, cam_id, type) == Append(log, [camera_id |-> cam_id, event_type |-> type])

\* sqlite: a second connection cannot write while the health loop's
\* connection holds its uncommitted transaction (lines 265-281)
DbWritable == ~hc.txn.open

\* the record kept in "last" of the operation that was just carried out
Did(op, cam_id) == [op |-> op, cam |-> cam_id]

\* Python dict/table helpers: d[k] = v and d.pop(k)
Put(f, k, v) == (k :> v) @@ f
Drop(f, k) == [x \in DOMAIN f \ {k} |-> f[x]]

\* the time.time() / datetime.utcnow() reading, in seconds
Epoch == 50 * SecondsPerHour
Now == Epoch + clock * HEALTH_CHECK_INTERVAL

\* ------------------------------------------------------------------------
\* Initial state: main() after init_db() on an empty database and
\* start_background_tasks()
\* ------------------------------------------------------------------------
HcIdle == [pc |-> "sleep", cams |-> <<>>, txn |-> NoTxn]

\* CameraStream.__init__ (pi_camera_client.py lines 65-72) and
\* MotionDetector.__init__ (lines 241-248); None is NoFrame / NoJpeg
NoFrame == 0
NoJpeg == <<"none">>
NewStream == [pc |-> "init", cap |-> "none", running |-> FALSE,
              last_frame |-> NoFrame, frame_count |-> 0]
NoGray == <<"none">>
NewDetector == [running |-> FALSE, prev_gray |-> NoGray, last_alert_time |-> 0,
                events |-> <<>>]

\* the frame lock is free and no thread is at it (line 67); the readers
\* are the threads that call get_frame_jpeg: the detection loop and the
\* request threads of the relay
Readers == 1..MaxReaders
NoLock == [holder |-> {}, frame |-> NoFrame,
           readers |-> [r \in Readers |-> [pc |-> "idle", quality |-> 0, got |-> NoJpeg]]]

\* register_with_server has not been started (line 506)
NoRegistration == [pc |-> "idle", attempt |-> 0, local_ip |-> "", result |-> "none",
                   answers |-> <<>>]

\* no request has been served by the relay endpoints yet
NoAuth == [username |-> "", password |-> ""]
NoBody == [text |-> "", jpeg |-> NoJpeg, events |-> <<>>, connected |-> FALSE, count |-> 0]
NoRequest == [route |-> "", auth |-> NoAuth, code |-> 0, body |-> NoBody]

InitEdge ==
    /\ stream = NewStream
    /\ jpeg = NoJpeg
    /\ good = NoFrame
    /\ motion = NewDetector
    /\ etime = 0
    /\ emitted = <<>>
    /\ posts = <<>>
    /\ lock = NoLock
    /\ reg = NoRegistration
    /\ http = NoRequest
    /\ isapi = <<>>
SweepIdle == [pc |-> "idle", cutoff |-> 0, sdirs |-> <<>>, sfiles |-> <<>>, count |-> 0]

Init ==
    /\ cameras = <<>>
    /\ next_id = 1
    /\ events = <<>>
    /\ recording_processes = <<>>
    /\ procs = [p \in Pids |-> NoProc]
    /\ threads = EmptyBag
    /\ hc = HcIdle
    /\ del = NoDelete
    /\ dirs = {}
    /\ files = {}
    /\ clock = 0
    /\ sw = SweepIdle
    /\ runs = <<>>
    /\ went_online = [cur |-> {}, prev |-> {}]
    /\ probe_failed = {}
    /\ InitEdge
    /\ last = Did("init", 0)

\* ------------------------------------------------------------------------
\* start_recording(camera), run on its own thread (lines 138-187)
\* ------------------------------------------------------------------------
\* threading.Thread(target=start_recording, args=(cam,)).start()
Thread(pc, cam_id) == [pc |-> pc, cam |-> cam_id]
StartThread(ths, cam_id) == ths (+) SetToBag({Thread("check", cam_id)})
CanStartThread == BagCardinality(threads) < MaxThreads

\* a thread takes a step, or ends (pc "done")
Moved(ths, th, pc) ==
    IF pc = "done" THEN ths (-) SetToBag({th})
    ELSE (ths (-) SetToBag({th})) (+) SetToBag({Thread(pc, th.cam)})

\* faulty variant: the check forgets the handle that is registered
AlreadyActive_NoCheck(cam_id) == FALSE

\* faulty variant: a handle in the table counts as a session, dead or not
AlreadyActive_DeadCounts(cam_id) == cam_id \in DOMAIN recording_processes

\* lines 142-147: under recording_lock, return when the handle is live
AlreadyActive(cam_id) == HasLiveHandle(cam_id)

ThreadCheck(th) ==
    /\ BagIn(th, threads)
    /\ th.pc = "check"
    /\ IF AlreadyActive(th.cam)
         THEN /\ threads' = Moved(threads, th, "done")
              /\ last' = Did("start_noop", th.cam)
         ELSE /\ threads' = Moved(threads, th, "spawn")
              /\ last' = Did("start_check", th.cam)
    /\ UNCHANGED <<cameras, next_id, events, recording_processes, procs,
                   hc, del, dirs, files, clock, sw, runs, went_online, probe_failed, edge>>

\* the pid of the next process
NewPid == CHOOSE p \in Pids : procs[p].st = "free" /\ \A q \in Pids : procs[q].st = "free" => p <= q

\* lines 149-182: mkdir of the camera directory, subprocess.Popen, and
\* under recording_lock recording_processes[cam_id] = proc.  Nothing but the
\* thread itself refers to the new process before it is in the table, so
\* Popen and the insertion are one step.
ThreadSpawn(th) ==
    /\ BagIn(th, threads)
    /\ th.pc = "spawn"
    /\ \E p \in Pids : procs[p].st = "free"
    /\ dirs' = dirs \cup {th.cam}
    /\ recording_processes' = Put(recording_processes, th.cam, NewPid)
    /\ procs' = Reaped([procs EXCEPT ![NewPid] = [cam |-> th.cam, st |-> "running"]],
                       recording_processes')
    /\ threads' = Moved(threads, th, "log")
    /\ last' = Did("spawn", th.cam)
    /\ UNCHANGED <<cameras, next_id, events, hc, del, files, clock, sw, runs,
                   went_online, probe_failed, edge>>

\* lines 175-187: Popen raises; the except clause logs and returns
ThreadSpawnFails(th) ==
    /\ BagIn(th, threads)
    /\ th.pc = "spawn"
    /\ dirs' = dirs \cup {th.cam}
    /\ threads' = Moved(threads, th, "done")
    /\ last' = Did("spawn_failed", th.cam)
    /\ UNCHANGED <<cameras, next_id, events, recording_processes, procs, hc,
                   del, files, clock, sw, runs, went_online, probe_failed, edge>>

\* line 185: _log_event(cam_id, "recording_start", ...)
ThreadLog(th) ==
    /\ BagIn(th, threads)
    /\ th.pc = "log"
    /\ DbWritable
    /\ Len(events) < MaxEvents
    /\ events' = LogEvent(events, th.cam, "recording_start")
    /\ threads' = Moved(threads, th, "done")
    /\ last' = Did("start_logged", th.cam)
    /\ UNCHANGED <<cameras, next_id, recording_processes, procs, hc, del,
                   dirs, files, clock, sw, runs, went_online, probe_failed, edge>>

\* lines 185-187: the INSERT times out on the database lock that the
\* health loop holds; the except clause swallows the error
ThreadLogBusy(th) ==
    /\ BagIn(th, threads)
    /\ th.pc = "log"
    /\ ~DbWritable
    /\ threads' = Moved(threads, th, "done")
    /\ last' = Did("start_log_failed", th.cam)
    /\ UNCHANGED <<cameras, next_id, events, recording_processes, procs, hc,
                   del, dirs, files, clock, sw, runs, went_online, probe_failed, edge>>

\* the encoder process exits on its own (input error, crash)
ProcExit(p) ==
    /\ procs[p].st = "running"
    /\ procs' = Reaped([procs EXCEPT ![p].st = "exited"], recording_processes)
    /\ last' = Did("proc_exit", procs[p].cam)
    /\ UNCHANGED <<cameras, next_id, events, recording_processes, threads,
                   hc, del, dirs, files, clock, sw, runs, went_online, probe_failed, edge>>

\* ------------------------------------------------------------------------
\* Request handlers of the coordinator
\* ------------------------------------------------------------------------
\* the row written by the INSERT of api_register, lines 324-330
RegisteredRow(u, ip) ==
    [name |-> u, pi_user |-> u, pi_ip |-> ip, is_online |-> 1, last_seen |-> Now]

\* faulty variant: the upsert leaves the online flag to the health loop
ReRegisteredRow_KeepsFlag(row, ip) == [row EXCEPT !.pi_ip = ip, !.last_seen = Now]

\* the UPDATE of api_register, lines 316-320
ReRegisteredRow(row, ip) ==
    [row EXCEPT !.pi_ip = ip, !.is_online = 1, !.last_seen = Now]

\* POST /api/register (lines 296-348): upsert by pi_user, start a
\* start_recording thread, log "registered"
Register(u, ip) ==
    /\ DbWritable
    /\ Len(events) < MaxEvents
    /\ CanStartThread
    /\   LET old == IdsOfUser(u)
             cam_id == IF old # {} THEN CHOOSE i \in old : TRUE ELSE next_id
         IN /\ old = {} => next_id <= MaxCamId
            /\ cameras' = IF old # {}
                            THEN [cameras EXCEPT ![cam_id] = ReRegisteredRow(@, ip)]
                            ELSE Put(cameras, cam_id, RegisteredRow(u, ip))
            /\ next_id' = IF old # {} THEN next_id ELSE next_id + 1
            /\ threads' = StartThread(threads, cam_id)
            /\ events' = LogEvent(events, cam_id, "registered")
            /\ last' = Did("register", cam_id)
    /\ UNCHANGED <<recording_processes, procs, hc, del, dirs, files, clock,
                   sw, runs, went_online, probe_failed, edge>>

\* ------------------------------------------------------------------------
\* api_register statement by statement: the SELECT by pi_user, then the
\* UPDATE or the INSERT on the same connection; Register above is these
\* steps taken with nothing in between.  Request threads run concurrently
\* (app.run(threaded=True), line 618).
\* ------------------------------------------------------------------------
\* a request between its SELECT and its write; cam is the id of the row
\* that the SELECT found, 0 when it found none
Request(u, ip, cam_id) == [pc |-> "reg", cam |-> cam_id, user |-> u, ip |-> ip]

\* lines 298-313: the request is parsed and the row of pi_user looked up
RegisterSelect(u, ip) ==
    /\ CanStartThread
    /\ LET cam_id == IF IdsOfUser(u) # {} THEN CHOOSE i \in IdsOfUser(u) : TRUE ELSE 0
       IN /\ threads' = threads (+) SetToBag({Request(u, ip, cam_id)})
          /\ last' = Did("reg_select", cam_id)
    /\ UNCHANGED <<cameras, next_id, events, recording_processes, procs, hc,
                   del, dirs, files, clock, sw, runs, went_online, probe_failed, edge>>

\* UPDATE cameras SET ... WHERE pi_user = ?, lines 316-320
ReRegisteredRows(tbl, u, ip) ==
    [i \in DOMAIN tbl |-> IF tbl[i].pi_user = u THEN ReRegisteredRow(tbl[i], ip)
                                               ELSE tbl[i]]

\* lines 315-348 when the SELECT found a row: the UPDATE by pi_user, the
\* commit, the start_recording thread and the "registered" event; the
\* answer is the id that the SELECT found
RegisterUpdate(rq) ==
    /\ BagIn(rq, threads)
    /\ rq.pc = "reg"
    /\ rq.cam # 0
    /\ DbWritable
    /\ Len(events) < MaxEvents
    /\ cameras' = ReRegisteredRows(cameras, rq.user, rq.ip)
    /\ threads' = IF rq.cam \in DOMAIN cameras
                    THEN StartThread(threads (-) SetToBag({rq}), rq.cam)
                    ELSE threads (-) SetToBag({rq})
    /\ events' = LogEvent(events, rq.cam, "registered")
    /\ last' = Did("register", rq.cam)
    /\ UNCHANGED <<next_id, recording_processes, procs, hc, del, dirs, files,
                   clock, sw, runs, went_online, probe_failed, edge>>

\* faulty variant: the column pi_user is not declared UNIQUE
UniqueViolated_NoConstraint(u) == FALSE

\* init_db, line 82: pi_user TEXT UNIQUE NOT NULL; an INSERT of a pi_user
\* that a row already has raises sqlite3.IntegrityError
UniqueViolated(u) == IdsOfUser(u) # {}

\* lines 322-348 when the SELECT found no row: the INSERT, the commit, the
\* start_recording thread and the "registered" event; the answer is
\* cursor.lastrowid
RegisterInsert(rq) ==
    /\ BagIn(rq, threads)
    /\ rq.pc = "reg"
    /\ rq.cam = 0
    /\ DbWritable
    /\ ~UniqueViolated(rq.user)
    /\ Len(events) < MaxEvents
    /\ next_id <= MaxCamId
    /\ cameras' = Put(cameras, next_id, RegisteredRow(rq.user, rq.ip))
    /\ next_id' = next_id + 1
    /\ threads' = StartThread(threads (-) SetToBag({rq}), next_id)
    /\ events' = LogEvent(events, next_id, "registered")
    /\ last' = Did("register", next_id)
    /\ UNCHANGED <<recording_processes, procs, hc, del, dirs, files, clock,
                   sw, runs, went_online, probe_failed, edge>>

\* lines 324-330: another request has inserted the pi_user since the
\* SELECT; the INSERT raises IntegrityError, which nothing in api_register
\* catches: the request ends with an error and no row is written
RegisterInsertFails(rq) ==
    /\ BagIn(rq, threads)
    /\ rq.pc = "reg"
    /\ rq.cam = 0
    /\ DbWritable
    /\ UniqueViolated(rq.user)
    /\ threads' = threads (-) SetToBag({rq})
    /\ last' = Did("register_conflict", 0)
    /\ UNCHANGED <<cameras, next_id, events, recording_processes, procs, hc,
                   del, dirs, files, clock, sw, runs, went_online, probe_failed, edge>>

\* the row written by the INSERT of api_add_camera, lines 372-376, with the
\* column defaults of init_db, lines 86-87
AddedRow(name, u, ip) ==
    [name |-> name, pi_user |-> u, pi_ip |-> ip, is_online |-> 0, last_seen |-> -1]

\* POST /api/cameras (lines 357-385); a duplicate pi_user answers 409
AddCamera(name, u, ip) ==
    /\ DbWritable
    /\ IdsOfUser(u) = {}
    /\ next_id <= MaxCamId
    /\ cameras' = Put(cameras, next_id, AddedRow(name, u, ip))
    /\ next_id' = next_id + 1
    /\ last' = Did("add", next_id)
    /\ UNCHANGED <<events, recording_processes, procs, threads, hc, del,
                   dirs, files, clock, sw, runs, went_online, probe_failed, edge>>

\* faulty variant: the administrative update resets the online flag
UpdatedRow_ResetsFlag(row, name, ip) ==
    [row EXCEPT !.name = name, !.pi_ip = ip, !.is_online = 0]

\* the UPDATE of api_update_camera, lines 402-405
UpdatedRow(row, name, ip) == [row EXCEPT !.name = name, !.pi_ip = ip]

\* PUT /api/cameras/<id> (lines 388-416)
UpdateCamera(cam_id, name, ip) ==
    /\ DbWritable
    /\ cam_id \in DOMAIN cameras
    /\ cameras' = [cameras EXCEPT ![cam_id] = UpdatedRow(@, name, ip)]
    /\ cameras' # cameras
    /\ last' = Did("update", cam_id)
    /\ UNCHANGED <<next_id, events, recording_processes, procs, threads, hc,
                   del, dirs, files, clock, sw, runs, went_online, probe_failed, edge>>

\* POST /api/events (lines 564-580): an edge node pushes an event
EventsCreate(u, type) ==
    /\ DbWritable
    /\ Len(events) < MaxEvents
    /\ IdsOfUser(u) # {}
    /\ LET cam_id == CHOOSE i \in IdsOfUser(u) : TRUE
       IN /\ events' = LogEvent(events, cam_id, type)
          /\ last' = Did("event", cam_id)
    /\ UNCHANGED <<cameras, next_id, recording_processes, procs, threads, hc,
                   del, dirs, files, clock, sw, runs, went_online, probe_failed, edge>>

\* stop_recording, lines 192-199: pop the handle under recording_lock; a
\* process that still runs is terminated, and killed when it has not
\* exited after 10 seconds
StoppedProcs(ps, p) == [ps EXCEPT ![p].st = "exited"]

\* DELETE /api/cameras/<id>, first half: stop_recording(cam_id) up to its
\* _log_event (lines 422, 192-200)
DeleteStop(cam_id, how) ==
    /\ del.pc = "idle"
    /\ LET has == cam_id \in DOMAIN recording_processes
           live == HasLiveHandle(cam_id)
       IN /\ recording_processes' = Drop(recording_processes, cam_id)
          /\ procs' = Reaped(IF live THEN StoppedProcs(procs, recording_processes[cam_id])
                                     ELSE procs, recording_processes')
          /\ how = "none" <=> ~live
          /\ del' = [pc |-> "db", cam |-> cam_id, live |-> live, how |-> how, proc |-> 0]
          /\ last' = Did(IF live THEN "stopped"
                         ELSE IF has THEN "popped" ELSE "stop_nothing", cam_id)
    /\ UNCHANGED <<cameras, next_id, events, threads, hc, dirs, files, clock,
                   sw, runs, went_online, probe_failed, edge>>

\* faulty variant: the DELETE has no WHERE clause
EventsWithout_All(log, cam_id) == <<>>

\* DELETE FROM events WHERE camera_id = ?
EventsWithout(log, cam_id) == SelectSeq(log, LAMBDA e : e.camera_id # cam_id)

\* DELETE /api/cameras/<id>, second half: the "recording_stop" event of
\* stop_recording (line 201), the two DELETEs (lines 423-427) and the
\* rmtree of the camera directory (lines 430-433)
DeleteDb ==
    /\ del.pc = "db"
    /\ DbWritable
    /\ del.live => Len(events) < MaxEvents
    /\ events' = EventsWithout(IF del.live THEN LogEvent(events, del.cam, "recording_stop")
                                           ELSE events, del.cam)
    /\ cameras' = Drop(cameras, del.cam)
    /\ dirs' = dirs \ {del.cam}
    /\ files' = {f \in files : f.cam # del.cam}
    /\ del' = NoDelete
    /\ last' = Did("deleted", del.cam)
    /\ UNCHANGED <<next_id, recording_processes, procs, threads, hc, clock,
                   sw, runs, went_online, probe_failed, edge>>

\* the handler's first write times out on the database lock that the health
\* loop holds: the request ends with an error, nothing is deleted
DeleteDbBusy ==
    /\ del.pc = "db"
    /\ ~DbWritable
    /\ del' = NoDelete
    /\ last' = Did("delete_failed", del.cam)
    /\ UNCHANGED <<cameras, next_id, events, recording_processes, procs,
                   threads, hc, dirs, files, clock, sw, runs, went_online, probe_failed, edge>>

\* ------------------------------------------------------------------------
\* stop_recording (lines 190-201) and the rest of api_delete_camera,
\* statement by statement; DeleteStop and DeleteDb above are these steps
\* taken with nothing in between
\* ------------------------------------------------------------------------
\* lines 192-193: under recording_lock, proc = recording_processes.pop(id, None)
StopPop(cam_id) ==
    /\ del.pc = "idle"
    /\ recording_processes' = Drop(recording_processes, cam_id)
    /\ del' = [pc |-> "popped", cam |-> cam_id, live |-> FALSE, how |-> "none",
               proc |-> IF cam_id \in DOMAIN recording_processes
                          THEN recording_processes[cam_id] ELSE 0]
    /\ last' = Did("stop_pop", cam_id)
    /\ UNCHANGED <<cameras, next_id, events, procs, threads, hc, dirs, files,
                   clock, sw, runs, went_online, probe_failed, edge>>

\* faulty variant: the test looks only for a handle, not at poll()
StopFindsRunning_AnyHandle == del.proc # 0

\* line 194: if proc and proc.poll() is None
StopFindsRunning == del.proc # 0 /\ Poll(del.proc)

\* lines 194-195: the popped process still runs: proc.terminate()
StopTerminate ==
    /\ del.pc = "popped"
    /\ StopFindsRunning
    /\ del' = [del EXCEPT !.pc = "waiting", !.live = TRUE]
    /\ last' = Did("stop_terminate", del.cam)
    /\ UNCHANGED <<cameras, next_id, events, recording_processes, procs,
                   threads, hc, dirs, files, clock, sw, runs, went_online,
                   probe_failed, edge>>

\* line 194: there was no handle, or its process has exited: stop_recording
\* returns, nothing is terminated and nothing is logged
StopNothing ==
    /\ del.pc = "popped"
    /\ ~StopFindsRunning
    /\ del' = [del EXCEPT !.pc = "db", !.proc = 0]
    /\ procs' = ReapedBut(procs, recording_processes, 0)
    /\ last' = Did("stop_noop", del.cam)
    /\ UNCHANGED <<cameras, next_id, events, recording_processes, threads, hc,
                   dirs, files, clock, sw, runs, went_online, probe_failed, edge>>

\* lines 196-197: proc.wait(timeout=10) returns, the process has exited
StopWaitExits ==
    /\ del.pc = "waiting"
    /\ procs' = StoppedProcs(procs, del.proc)
    /\ del' = [del EXCEPT !.pc = "log", !.how = "terminated"]
    /\ last' = Did("stop_exited", del.cam)
    /\ UNCHANGED <<cameras, next_id, events, recording_processes, threads, hc,
                   dirs, files, clock, sw, runs, went_online, probe_failed, edge>>

\* lines 196-198: proc.wait(timeout=10) raises TimeoutExpired, the process
\* runs on
StopWaitTimeout ==
    /\ del.pc = "waiting"
    /\ Poll(del.proc)
    /\ del' = [del EXCEPT !.pc = "timeout"]
    /\ last' = Did("stop_timeout", del.cam)
    /\ UNCHANGED <<cameras, next_id, events, recording_processes, procs,
                   threads, hc, dirs, files, clock, sw, runs, went_online,
                   probe_failed, edge>>

\* line 199: proc.kill()
StopKill ==
    /\ del.pc = "timeout"
    /\ procs' = StoppedProcs(procs, del.proc)
    /\ del' = [del EXCEPT !.pc = "log", !.how = "killed"]
    /\ last' = Did("stop_kill", del.cam)
    /\ UNCHANGED <<cameras, next_id, events, recording_processes, threads, hc,
                   dirs, files, clock, sw, runs, went_online, probe_failed, edge>>

\* lines 200-201: _log_event(camera_id, "recording_stop", ...), and
\* stop_recording returns
StopLog ==
    /\ del.pc = "log"
    /\ DbWritable
    /\ Len(events) < MaxEvents
    /\ events' = LogEvent(events, del.cam, "recording_stop")
    /\ del' = [del EXCEPT !.pc = "db", !.proc = 0]
    /\ procs' = ReapedBut(procs, recording_processes, 0)
    /\ last' = Did("stop_logged", del.cam)
    /\ UNCHANGED <<cameras, next_id, recording_processes, threads, hc, dirs,
                   files, clock, sw, runs, went_online, probe_failed, edge>>

\* line 201: the INSERT times out on the database lock that the health loop
\* holds; the error leaves stop_recording and api_delete_camera
StopLogBusy ==
    /\ del.pc = "log"
    /\ ~DbWritable
    /\ del' = NoDelete
    /\ procs' = ReapedBut(procs, recording_processes, 0)
    /\ last' = Did("stop_log_failed", del.cam)
    /\ UNCHANGED <<cameras, next_id, events, recording_processes, threads, hc,
                   dirs, files, clock, sw, runs, went_online, probe_failed, edge>>

\* lines 423-433: the two DELETEs, their commit, and the rmtree of the
\* camera directory
DeleteRows ==
    /\ del.pc = "db"
    /\ DbWritable
    /\ events' = EventsWithout(events, del.cam)
    /\ cameras' = Drop(cameras, del.cam)
    /\ dirs' = dirs \ {del.cam}
    /\ files' = {f \in files : f.cam # del.cam}
    /\ del' = NoDelete
    /\ last' = Did("deleted", del.cam)
    /\ UNCHANGED <<next_id, recording_processes, procs, threads, hc, clock,
                   sw, runs, went_online, probe_failed, edge>>

\* ------------------------------------------------------------------------
\* health_check_loop (lines 248-285), one thread
\* ------------------------------------------------------------------------
\* the sequence of the elements of S in ascending key order
SortedSeq(S, key(_)) ==
    CHOOSE s \in [1..Cardinality(S) -> S] :
        /\ \A i, j \in 1..Cardinality(S) : i < j => key(s[i]) < key(s[j])

\* ORDER BY name (binary collation); rows of equal name in rowid order
NameRank(n) == CASE n = "cam" -> 1 [] n = "u1" -> 2 [] n = "u2" -> 3
CameraOrder(i) == NameRank(cameras[i].name) * (MaxCamId + 1) + i

\* get_all_cameras(), lines 116-120: the rows as the loop will use them
AllCameras ==
    LET ids == SortedSeq(DOMAIN cameras, CameraOrder)
    IN [k \in 1..Len(ids) |-> [id |-> ids[k], pi_ip |-> cameras[ids[k]].pi_ip]]

\* GET /api/cameras (lines 351-354): the rows in the order of the query
ApiCameras ==
    LET ids == SortedSeq(DOMAIN cameras, CameraOrder)
    IN [k \in 1..Len(ids) |-> [id |-> ids[k]] @@ cameras[ids[k]]]

\* lines 250-253: the sleep ends, the camera list is read
HcWake ==
    /\ hc.pc = "sleep"
    /\ clock' = IF clock < MaxClock THEN clock + 1 ELSE clock
    /\ hc' = [hc EXCEPT !.pc = "probing", !.cams = AllCameras]
    /\ last' = Did("wake", 0)
    /\ UNCHANGED <<cameras, next_id, events, recording_processes, procs,
                   threads, del, dirs, files, sw, runs, went_online, probe_failed, edge>>

\* lines 255-256: a camera without address is not probed
HcSkip ==
    /\ hc.pc = "probing"
    /\ hc.cams # <<>>
    /\ Head(hc.cams).pi_ip = ""
    /\ hc' = [hc EXCEPT !.cams = Tail(@)]
    /\ last' = Did("skip", Head(hc.cams).id)
    /\ UNCHANGED <<cameras, next_id, events, recording_processes, procs,
                   threads, del, dirs, files, clock, sw, runs, went_online, probe_failed, edge>>

\* the UPDATE statements of lines 265-268 and of lines 278, 280, pending
\* in the loop's transaction
OnlineWrite(cam_id) == [id |-> cam_id, is_online |-> 1, seen |-> TRUE, last_seen |-> Now]

\* faulty variant: the UPDATE of a failed probe also writes last_seen
OfflineWrite_TouchesSeen(cam_id) ==
    [id |-> cam_id, is_online |-> 0, seen |-> TRUE, last_seen |-> Now]

OfflineWrite(cam_id) == [id |-> cam_id, is_online |-> 0, seen |-> FALSE, last_seen |-> -1]

\* faulty variant: the loop looks only for a handle, not at poll()
NeedsRecording_NoPoll(cam_id) == cam_id \notin DOMAIN recording_processes

\* lines 271-272: the loop's decision to start a recording thread
NeedsRecording(cam_id) == ~HasLiveHandle(cam_id)

\* lines 259-276: the probe answers 200
HcProbeOk ==
    /\ hc.pc = "probing"
    /\ hc.cams # <<>>
    /\ Head(hc.cams).pi_ip # ""
    /\ LET cam_id == Head(hc.cams).id
       IN /\ hc' = [hc EXCEPT !.cams = Tail(@),
                              !.txn = [open |-> TRUE,
                                       writes |-> Append(@.writes, OnlineWrite(cam_id))]]
          /\ IF NeedsRecording(cam_id)
               THEN /\ CanStartThread
                    /\ threads' = StartThread(threads, cam_id)
               ELSE threads' = threads
          /\ last' = Did("probe_ok", cam_id)
    /\ UNCHANGED <<cameras, next_id, events, recording_processes, procs, del,
                   dirs, files, clock, sw, runs, went_online, probe_failed, edge>>

\* faulty variant: a failed probe also stops the recording of the camera
HcProbeFail_StopsRecording(r) ==
    /\ r \in ProbeResults \ {"ok"}
    /\ hc.pc = "probing"
    /\ hc.cams # <<>>
    /\ Head(hc.cams).pi_ip # ""
    /\ LET cam_id == Head(hc.cams).id
       IN /\ hc' = [hc EXCEPT !.cams = Tail(@),
                              !.txn = [open |-> TRUE,
                                       writes |-> Append(@.writes, OfflineWrite(cam_id))]]
          /\ recording_processes' = Drop(recording_processes, cam_id)
          /\ procs' = Reaped(IF HasLiveHandle(cam_id)
                               THEN StoppedProcs(procs, recording_processes[cam_id])
                               ELSE procs, recording_processes')
          /\ last' = Did("probe_fail", cam_id)
    /\ UNCHANGED <<cameras, next_id, events, threads, del, dirs, files, clock,
                   sw, runs, went_online, probe_failed, edge>>

\* lines 277-280: the probe answers another status, or raises (timeout,
\* connection error)
HcProbeFail(r) ==
    /\ r \in ProbeResults \ {"ok"}
    /\ hc.pc = "probing"
    /\ hc.cams # <<>>
    /\ Head(hc.cams).pi_ip # ""
    /\ LET cam_id == Head(hc.cams).id
       IN /\ hc' = [hc EXCEPT !.cams = Tail(@),
                              !.txn = [open |-> TRUE,
                                       writes |-> Append(@.writes, OfflineWrite(cam_id))]]
          /\ last' = Did("probe_fail", cam_id)
    /\ UNCHANGED <<cameras, next_id, events, recording_processes, procs,
                   threads, del, dirs, files, clock, sw, runs, went_online, probe_failed, edge>>

\* faulty variant: only the last_seen column of a pending UPDATE reaches the table
ApplyWrite_SeenOnly(tbl, w) ==
    IF w.id \notin DOMAIN tbl THEN tbl
    ELSE [tbl EXCEPT ![w.id].last_seen = IF w.seen THEN w.last_seen ELSE @]

\* one pending UPDATE ... WHERE id = ? applied to the table
ApplyWrite(tbl, w) ==
    IF w.id \notin DOMAIN tbl THEN tbl
    ELSE [tbl EXCEPT ![w.id].is_online = w.is_online,
                     ![w.id].last_seen = IF w.seen THEN w.last_seen ELSE @]

RECURSIVE ApplyWrites(_, _)
ApplyWrites(tbl, ws) ==
    IF ws = <<>> THEN tbl ELSE ApplyWrites(ApplyWrite(tbl, Head(ws)), Tail(ws))

\* cutoff of cleanup_old_recordings, line 206
Cutoff == Now - MAX_AGE_HOURS * SecondsPerHour

DirOrder(d) == d

\* ------------------------------------------------------------------------
\* cleanup_old_recordings (lines 204-216), step by step
\* ------------------------------------------------------------------------
\* line 212: seg_file.stat().st_mtime < cutoff
Expired(f, cutoff) == f.mtime < cutoff

FileOrder(f) == f.mtime

\* cam_dir.glob("seg_*.mp4"), line 211
Glob(d) == SortedSeq({f \in files : f.cam = d}, FileOrder)

\* lines 208-211: the directories still to visit, without the leading
\* entries that are no directory (any more) or hold no segment file;
\* passing over those changes nothing and is folded into the step before
RECURSIVE SkipEmpty(_)
SkipEmpty(ds) ==
    IF ds = <<>> THEN <<>>
    ELSE IF Head(ds) \in dirs /\ Glob(Head(ds)) # <<>> THEN ds
    ELSE SkipEmpty(Tail(ds))

\* the sweep with the directories ds left to visit: it has returned
\* (lines 215-216) when none of them has work left
SweepAt(st, ds) ==
    [st EXCEPT !.sdirs = SkipEmpty(ds), !.sfiles = <<>>,
               !.pc = IF SkipEmpty(ds) = <<>> THEN "returned" ELSE "run"]

\* the state of cleanup_old_recordings after lines 206-208: the cutoff is
\* computed and RECORDINGS_DIR is listed
SweepStarted ==
    SweepAt([pc |-> "run", cutoff |-> Cutoff, sdirs |-> <<>>, sfiles |-> <<>>, count |-> 0],
            SortedSeq(dirs, DirOrder))

\* lines 208-211: the next directory is globbed
SweepDir ==
    /\ sw.pc = "run"
    /\ sw.sfiles = <<>>
    /\ sw.sdirs # <<>>
    /\ sw' = [sw EXCEPT !.sdirs = Tail(@), !.sfiles = Glob(Head(sw.sdirs))]
    /\ last' = Did("sweep_dir", Head(sw.sdirs))
    /\ UNCHANGED <<cameras, next_id, events, recording_processes, procs,
                   threads, hc, del, dirs, files, clock, went_online, probe_failed, edge>>

\* the sweep after the file at the head of sfiles is dealt with
AfterFile(st) ==
    IF Len(st.sfiles) > 1 THEN [st EXCEPT !.sfiles = Tail(@)]
    ELSE SweepAt(st, st.sdirs)

\* lines 212-214: the file is stat'ed; an expired file is unlinked and
\* counted, another one is left alone
SweepFile ==
    /\ sw.pc = "run"
    /\ sw.sfiles # <<>>
    /\ Head(sw.sfiles) \in files
    /\ LET f == Head(sw.sfiles)
       IN IF Expired(f, sw.cutoff)
            THEN /\ files' = files \ {f}
                 /\ sw' = AfterFile([sw EXCEPT !.count = @ + 1])
                 /\ last' = Did("unlink", f.cam)
            ELSE /\ files' = files
                 /\ sw' = AfterFile(sw)
                 /\ last' = Did("keep", f.cam)
    /\ UNCHANGED <<cameras, next_id, events, recording_processes, procs,
                   threads, hc, del, dirs, clock, went_online, probe_failed, edge>>

\* line 213: seg_file.unlink() raises OSError; nothing in
\* cleanup_old_recordings catches it
SweepUnlinkFails ==
    /\ sw.pc = "run"
    /\ sw.sfiles # <<>>
    /\ Head(sw.sfiles) \in files
    /\ Expired(Head(sw.sfiles), sw.cutoff)
    /\ sw' = [sw EXCEPT !.pc = "raised"]
    /\ last' = Did("unlink_failed", Head(sw.sfiles).cam)
    /\ UNCHANGED <<cameras, next_id, events, recording_processes, procs,
                   threads, hc, del, dirs, files, clock, went_online, probe_failed, edge>>

\* line 212: the file was removed after the glob (rmtree of
\* api_delete_camera): seg_file.stat() raises FileNotFoundError
SweepStatFails ==
    /\ sw.pc = "run"
    /\ sw.sfiles # <<>>
    /\ Head(sw.sfiles) \notin files
    /\ sw' = [sw EXCEPT !.pc = "raised"]
    /\ last' = Did("stat_failed", Head(sw.sfiles).cam)
    /\ UNCHANGED <<cameras, next_id, events, recording_processes, procs,
                   threads, hc, del, dirs, files, clock, went_online, probe_failed, edge>>

\* faulty variant: the commit and the sweep do not wait for the end of
\* the camera list
HcCommit_Early ==
    /\ hc.pc = "probing"
    /\ cameras' = ApplyWrites(cameras, hc.txn.writes)
    /\ hc' = [hc EXCEPT !.pc = "cleanup", !.txn = NoTxn]
    /\ sw' = SweepStarted
    /\ last' = Did("commit", 0)
    /\ UNCHANGED <<next_id, events, recording_processes, procs, threads, del,
                   dirs, files, clock, runs, edge>>

\* lines 281-285: commit and close, then cleanup_old_recordings is called
HcCommit ==
    /\ hc.pc = "probing"
    /\ hc.cams = <<>>
    /\ cameras' = ApplyWrites(cameras, hc.txn.writes)
    /\ hc' = [hc EXCEPT !.pc = "cleanup", !.txn = NoTxn]
    /\ sw' = SweepStarted
    /\ last' = Did("commit", 0)
    /\ UNCHANGED <<next_id, events, recording_processes, procs, threads, del,
                   dirs, files, clock, runs, edge>>

\* the cameras for which the transaction holds a write of is_online = v
Probed(ws, v) == {ws[k].id : k \in {j \in DOMAIN ws : ws[j].is_online = v}}

\* the commit, observed for the cameras that it turns online
HcCommitTurns ==
    /\ HcCommit
    /\ went_online' = [prev |-> went_online.cur,
                       cur |-> {c \in DOMAIN cameras : cameras[c].is_online = 0
                                                      /\ cameras'[c].is_online = 1}]
    /\ UNCHANGED probe_failed

\* the commit, observed for the cameras whose probe it records as failed
HcCommitProbes ==
    /\ HcCommit
    /\ probe_failed' = (probe_failed \ Probed(hc.txn.writes, 1))
                            \cup (Probed(hc.txn.writes, 0) \cap DOMAIN cameras)
    /\ UNCHANGED went_online

\* line 285 returns: the loop goes back to its sleep (line 251)
HcCleanupReturns ==
    /\ hc.pc = "cleanup"
    /\ sw.pc = "returned"
    /\ hc' = [hc EXCEPT !.pc = "sleep"]
    /\ sw' = SweepIdle
    /\ last' = Did("pass_end", 0)
    /\ UNCHANGED <<cameras, next_id, events, recording_processes, procs,
                   threads, del, dirs, files, clock, runs, went_online, probe_failed, edge>>

\* line 285 raises: the exception leaves the while loop of
\* health_check_loop and ends its thread
HcCleanupRaises ==
    /\ hc.pc = "cleanup"
    /\ sw.pc = "raised"
    /\ hc' = [hc EXCEPT !.pc = "dead"]
    /\ sw' = SweepIdle
    /\ last' = Did("loop_died", 0)
    /\ UNCHANGED <<cameras, next_id, events, recording_processes, procs,
                   threads, del, dirs, files, clock, runs, went_online, probe_failed, edge>>

\* ------------------------------------------------------------------------
\* The coordinator as recording supervisor: registration and removal of
\* cameras, the start_recording threads, the encoder processes and the
\* health loop.  Camera ids are issued up to MaxRecCams.
\* ------------------------------------------------------------------------
Names == {"cam"}
StopOutcomes == {"none", "terminated", "killed"}

RecRegister(u) ==
    /\ IdsOfUser(u) # {} \/ next_id <= MaxRecCams
    /\ Register(u, "A")

RecDelete(i, how) ==
    /\ i <= MaxRecCams
    /\ DeleteStop(i, how)

Next ==
    \/ \E u \in Users : RecRegister(u)
    \/ \E i \in CamIds, how \in StopOutcomes : RecDelete(i, how)
    \/ DeleteDb
    \/ DeleteDbBusy
    \/ \E th \in BagToSet(threads) : ThreadCheck(th)
    \/ \E th \in BagToSet(threads) : ThreadSpawn(th)
    \/ \E th \in BagToSet(threads) : ThreadSpawnFails(th)
    \/ \E th \in BagToSet(threads) : ThreadLog(th)
    \/ \E th \in BagToSet(threads) : ThreadLogBusy(th)
    \/ \E p \in Pids : ProcExit(p)
    \/ HcWake
    \/ HcProbeOk
    \/ \E r \in ProbeResults : HcProbeFail(r)
    \/ HcCommitTurns
    \/ HcCleanupReturns

Spec == Init /\ [][Next]_vars

\* ------------------------------------------------------------------------
\* Claims about the recording supervisor
\* ------------------------------------------------------------------------
EntryOf(tbl, cam_id) == IF cam_id \in DOMAIN tbl THEN tbl[cam_id] ELSE 0

\* C1: at every instant and for every camera id at most one encoder process
\* spawned for that camera is running.
C1_AtMostOneLiveSession ==
    \A c \in CamIds : Cardinality(LiveProcs(c)) <= 1

\* C2: nothing changes the process table entry of a camera while a
\* start_recording thread for that camera is between its liveness check and
\* its insertion (the check and the insertion are one critical section).
C2_CheckAndInsertAtomic ==
    [][\A th \in BagToSet(threads) :
          (th.pc = "spawn" /\ BagIn(th, threads'))
          => EntryOf(recording_processes', th.cam) = EntryOf(recording_processes, th.cam)]_vars

\* C3: start_recording for a camera whose registered handle still runs
\* returns at its check: no process is spawned, the process table and the
\* event log stay as they are.
C3_LiveHandleNoOp ==
    [][\A th \in BagToSet(threads) :
          (/\ th.pc = "check"
           /\ HasLiveHandle(th.cam)
           /\ CopiesIn(th, threads') < CopiesIn(th, threads))
          => /\ threads' = threads (-) SetToBag({th})
             /\ UNCHANGED <<procs, recording_processes, events, dirs>>]_vars

C3_Witness ==
    /\ last.op = "start_noop"
    /\ HasLiveHandle(last.cam)
    /\ Cardinality(LiveProcs(last.cam)) = 1

\* C5 as stated: at the end of the pass after the one that turned a camera
\* online, the camera has a live recording session (taken in the case most
\* favourable to the claim: the camera is still registered and still
\* online, no removal and no start_recording thread is in flight).
C5_SessionWithinOnePass ==
    (/\ last.op = "pass_end"
     /\ threads = EmptyBag
     /\ del.pc = "idle")
    => \A c \in went_online.prev \cap DOMAIN cameras :
          cameras[c].is_online = 1 => HasLiveHandle(c)

\* C5 amended: a successful probe of a camera that has no live handle makes
\* the loop start a start_recording thread for it before it goes on; the
\* session is live once the spawn of a start_recording thread succeeds.
C5_ProbeRequestsRecording ==
    [][/\ last'.op = "probe_ok"
          => \/ HasLiveHandle(last'.cam)
             \/ threads' = threads (+) SetToBag({Thread("check", last'.cam)})
       /\ last'.op = "spawn"
          => /\ last'.cam \in DOMAIN recording_processes'
             /\ procs'[recording_processes'[last'.cam]].st = "running"]_vars

C5_Witness ==
    /\ last.op = "probe_ok"
    /\ last.cam \in DOMAIN cameras
    /\ cameras[last.cam].is_online = 0
    /\ BagIn(Thread("check", last.cam), threads)

\* C13: a failed health probe changes nothing but the online flag of the
\* camera: the probe itself leaves the process table, the encoder processes,
\* the start_recording threads, the events and the committed rows as they
\* are, and the commit of its pass writes is_online = 0 into the row of the
\* camera and nothing else, with the table and the processes unchanged.
C13_FailedProbeOnlyFlag ==
    [][/\ last'.op = "probe_fail"
          => UNCHANGED <<recording_processes, procs, threads, events, cameras>>
       /\ last'.op = "commit"
          => /\ UNCHANGED <<recording_processes, procs, threads, events>>
             /\ \A c \in Probed(hc.txn.writes, 0) \cap DOMAIN cameras :
                   cameras'[c] = [cameras[c] EXCEPT !.is_online = 0]]_vars

C13_Witness ==
    /\ last.op = "commit"
    /\ \E c \in DOMAIN cameras :
          /\ cameras[c].is_online = 0
          /\ HasLiveHandle(c)
          /\ LiveProcs(c) = {recording_processes[c]}

\* the table holds a handle for the camera whose process has exited
DeadHandle(cam_id) ==
    /\ cam_id \in DOMAIN recording_processes
    /\ ~Poll(recording_processes[cam_id])

\* C21 as stated: the dead handle of a camera is replaced by a new encoder
\* only in a reconciliation pass, never before one: no encoder is spawned
\* over a dead handle while the health loop has not yet begun its first
\* pass.
C21_NoRestartBeforePass ==
    [][\A c \in CamIds :
          (DeadHandle(c) /\ last'.op = "spawn" /\ last'.cam = c) => clock > 0]_vars

\* C21 amended: the exit of an encoder restarts nothing by itself (the table
\* and the threads stay as they are); a dead handle counts as no session:
\* a successful probe of its camera starts a start_recording thread, and no
\* start_recording thread returns at its check because of it; the handle is
\* replaced only by the spawn of a start_recording thread, by a process
\* that runs; and start_recording threads are started only by a successful
\* probe of a pass and by a registration request.
C21_DeadHandleRestartedByThread ==
    [][/\ last'.op = "proc_exit" => UNCHANGED <<recording_processes, threads>>
       /\ \A c \in CamIds :
             DeadHandle(c) =>
                /\ (last'.op = "probe_ok" /\ last'.cam = c)
                   => threads' = threads (+) SetToBag({Thread("check", c)})
                /\ ~(last'.op = "start_noop" /\ last'.cam = c /\ threads' # threads)
                /\ EntryOf(recording_processes', c) \notin {EntryOf(recording_processes, c), 0}
                   => /\ last'.op = "spawn" /\ last'.cam = c
                      /\ procs'[recording_processes'[c]].st = "running"
                      /\ \E th \in BagToSet(threads) : th = Thread("spawn", c)
       /\ BagCardinality(threads') > BagCardinality(threads)
          => last'.op \in {"probe_ok", "register"}]_vars

\* an encoder was spawned over a dead handle: the new process has the second
\* pid because the dead one held the first until this step
C21_Witness ==
    /\ last.op = "spawn"
    /\ HasLiveHandle(last.cam)
    /\ recording_processes[last.cam] = 2
    /\ procs[1].st = "free"

\* C23: a probe that fails (another status, a timeout or a connection
\* error) queues for its camera is_online = 0 and nothing for last_seen, and
\* starts no thread; a probe that succeeds queues is_online = 1 and
\* last_seen = now and starts a start_recording thread when, and only when,
\* the camera has no live handle; the commit of the pass writes for each
\* probed camera that is still registered exactly what its probe queued,
\* the last_seen of a camera whose probe failed staying as it was.
C23_ProbeOutcomeWrites ==
    [][/\ last'.op \in {"probe_ok", "probe_fail"}
          => LET ws == hc'.txn.writes
                 w == ws[Len(ws)]
             IN /\ Len(ws) = Len(hc.txn.writes) + 1
                /\ w.id = last'.cam
                /\ UNCHANGED <<cameras, recording_processes, procs>>
                /\ IF last'.op = "probe_fail"
                     THEN w.is_online = 0 /\ ~w.seen /\ UNCHANGED threads
                     ELSE /\ w.is_online = 1 /\ w.seen
                          /\ w.last_seen = Epoch + clock * HEALTH_CHECK_INTERVAL
                          /\ threads' = IF HasLiveHandle(w.id) THEN threads
                                        ELSE threads (+) SetToBag({Thread("check", w.id)})
       /\ last'.op = "commit"
          => \A k \in DOMAIN hc.txn.writes :
                LET w == hc.txn.writes[k]
                IN w.id \in DOMAIN cameras
                   => /\ cameras'[w.id].is_online = w.is_online
                      /\ cameras'[w.id].last_seen =
                            IF w.is_online = 1 THEN w.last_seen
                            ELSE cameras[w.id].last_seen]_vars

\* a pass that found the camera unreachable was committed: the camera is
\* offline and its last_seen is still that of its registration
C23_Witness ==
    /\ last.op = "commit"
    /\ clock = 1
    /\ \E c \in DOMAIN cameras :
          /\ cameras[c].is_online = 0
          /\ cameras[c].last_seen = Epoch

\* C29: a start_recording thread whose spawn succeeded records the handle
\* of the new process in the table at once and ends having appended one
\* recording_start event of its camera; a thread whose spawn failed ends
\* with the table, the processes and the events as they were.
C29_SpawnRecordsAndLogs ==
    [][/\ last'.op = "spawn"
          => /\ last'.cam \in DOMAIN recording_processes'
             /\ procs'[recording_processes'[last'.cam]] = [cam |-> last'.cam, st |-> "running"]
             /\ recording_processes'[last'.cam] \notin {EntryOf(recording_processes, last'.cam)}
             /\ events' = events
       /\ last'.op = "spawn_failed"
          => UNCHANGED <<recording_processes, procs, events>>
       /\ \A th \in BagToSet(threads) :
             (th.pc = "log" /\ CopiesIn(th, threads') < CopiesIn(th, threads))
             => /\ Len(events') = Len(events) + 1
                /\ SubSeq(events', 1, Len(events)) = events
                /\ events'[Len(events')].camera_id = th.cam
                /\ events'[Len(events')].event_type = "recording_start"]_vars

\* ------------------------------------------------------------------------
\* The coordinator as camera registry: registration, the administrative
\* requests (add, update, remove), pushed events and the health loop, with
\* the start_recording threads that registration and the loop start.
\* Camera ids are issued up to MaxRecCams.
\* ------------------------------------------------------------------------
RegRegister(u) ==
    /\ IdsOfUser(u) # {} \/ next_id <= MaxRecCams
    /\ Register(u, "A")

RegAddCamera(u, ip) ==
    /\ next_id <= MaxRecCams
    /\ AddCamera("cam", u, ip)

NextRegistry ==
    \/ \E u \in Users : RegRegister(u)
    \/ \E u \in Users, ip \in Addrs : RegAddCamera(u, ip)
    \/ \E i \in CamIds, n \in Names, ip \in Addrs : UpdateCamera(i, n, ip)
    \/ \E u \in Users, t \in PushedTypes : EventsCreate(u, t)
    \/ \E i \in CamIds, how \in StopOutcomes : RecDelete(i, how)
    \/ DeleteDb
    \/ DeleteDbBusy
    \/ \E th \in BagToSet(threads) : ThreadCheck(th)
    \/ \E th \in BagToSet(threads) : ThreadSpawn(th)
    \/ \E th \in BagToSet(threads) : ThreadLog(th)
    \/ \E th \in BagToSet(threads) : ThreadLogBusy(th)
    \/ HcWake
    \/ HcSkip
    \/ HcProbeOk
    \/ \E r \in ProbeResults : HcProbeFail(r)
    \/ HcCommitProbes
    \/ HcCleanupReturns

SpecRegistry == Init /\ [][NextRegistry]_vars

\* ------------------------------------------------------------------------
\* Claims about the online flag
\* ------------------------------------------------------------------------
\* the entries of the camera list for one camera id
Listed(cam_id) == {ApiCameras[k] : k \in {j \in DOMAIN ApiCameras : ApiCameras[j].id = cam_id}}

FlagsDiffer(old, new) ==
    old.is_online # new.is_online \/ old.last_seen # new.last_seen

Requests == {rq \in BagToSet(threads) : rq.pc = "reg"}

NextUpsert ==
    \/ \E u \in Users, ip \in Addrs : RegisterSelect(u, ip)
    \/ \E rq \in Requests : RegisterUpdate(rq)
    \/ \E rq \in Requests : RegisterInsert(rq)
    \/ \E rq \in Requests : RegisterInsertFails(rq)
    \/ \E u \in Users, ip \in Addrs : AddCamera("cam", u, ip)
    \/ \E th \in BagToSet(threads) : ThreadCheck(th)
    \/ \E th \in BagToSet(threads) : ThreadSpawn(th)
    \/ \E th \in BagToSet(threads) : ThreadLog(th)

SpecUpsert == Init /\ [][NextUpsert]_vars

\* ------------------------------------------------------------------------
\* Claims about registration
\* ------------------------------------------------------------------------
\* the request that a step has answered
Answered(rq) == rq.pc = "reg" /\ CopiesIn(rq, threads') < CopiesIn(rq, threads)

NextEvents ==
    \/ \E u \in Users : Register(u, "A")
    \/ \E u \in Users, t \in PushedTypes : EventsCreate(u, t)
    \/ \E i \in CamIds, how \in StopOutcomes : DeleteStop(i, how)
    \/ DeleteDb
    \/ \E th \in BagToSet(threads) : ThreadCheck(th)
    \/ \E th \in BagToSet(threads) : ThreadSpawn(th)
    \/ \E th \in BagToSet(threads) : ThreadLog(th)

SpecEvents == Init /\ [][NextEvents]_vars

\* ------------------------------------------------------------------------
\* Claims about the event log
\* ------------------------------------------------------------------------
\* C19: the event log is append-only: every step leaves the events that are
\* in the log where they are and as they are, and at most appends to them;
\* only the removal of a camera takes events out, and only those of the
\* removed camera.
C19_EventLogAppendOnly ==
    [][LET removed == IF last'.op = "deleted" THEN last'.cam ELSE 0
           kept == SelectSeq(events, LAMBDA e : e.camera_id # removed)
       IN /\ Len(events') >= Len(kept)
          /\ SubSeq(events', 1, Len(kept)) = kept]_vars

C19_Witness ==
    /\ last.op = "deleted"
    /\ last.cam \notin DOMAIN cameras
    /\ Len(events) = 1
    /\ events[1].camera_id \in DOMAIN cameras
    /\ events[1].event_type = "registered"

\* C20: every event in the log has a type of the enumeration registered,
\* recording_start, recording_stop, motion, offline, online.
C20_EventTypesEnumerated ==
    \A k \in DOMAIN events :
        events[k].event_type \in {"registered", "recording_start", "recording_stop",
                                  "motion", "offline", "online"}

\* ------------------------------------------------------------------------
\* cleanup_old_recordings called directly, MaxRuns times in succession at
\* one time, on a recordings directory that holds segment files of several
\* ages; no segment is written in between.
\* ------------------------------------------------------------------------
AgeHours == {47, 48, 49}
SegmentAged(d, h) == [cam |-> d, mtime |-> Now - h * SecondsPerHour]
Segments(ds) == {SegmentAged(d, h) : d \in ds, h \in AgeHours}

InitSweep ==
    /\ cameras = <<>>
    /\ next_id = 1
    /\ events = <<>>
    /\ recording_processes = <<>>
    /\ procs = [p \in Pids |-> NoProc]
    /\ threads = EmptyBag
    /\ hc = HcIdle
    /\ del = NoDelete
    /\ clock = 0
    /\ dirs \in SUBSET CamIds
    /\ files \in SUBSET Segments(dirs)
    /\ sw = SweepIdle
    /\ runs = <<>>
    /\ went_online = [cur |-> {}, prev |-> {}]
    /\ probe_failed = {}
    /\ InitEdge
    /\ last = Did("init", 0)

\* what the rest of the program does not touch while a sweep runs
SweepFrame ==
    UNCHANGED <<cameras, next_id, events, recording_processes, procs, threads,
                hc, del, dirs, clock, went_online, probe_failed, edge>>

\* the call: lines 206-208
SweepCall ==
    /\ sw.pc = "idle"
    /\ Len(runs) < MaxRuns
    /\ sw' = SweepStarted
    /\ runs' = Append(runs, [cutoff |-> Cutoff, before |-> files, after |-> files,
                             failed |-> {}, status |-> "running"])
    /\ last' = Did("sweep", 0)
    /\ files' = files
    /\ SweepFrame

\* the record of the running call
Noted(field, value) == [runs EXCEPT ![Len(runs)][field] = value]

SweepDirStep == SweepDir /\ runs' = runs

SweepFileStep == SweepFile /\ runs' = runs

\* line 213 raises: the exception leaves cleanup_old_recordings
SweepUnlinkFailsStep ==
    /\ SweepUnlinkFails
    /\ runs' = Noted("failed", {Head(sw.sfiles)})

\* lines 215-216: the call returns
SweepReturns ==
    /\ sw.pc = "returned"
    /\ sw' = SweepIdle
    /\ runs' = [Noted("after", files) EXCEPT ![Len(runs)].status = "returned"]
    /\ last' = Did("sweep_returned", 0)
    /\ files' = files
    /\ SweepFrame

\* the caller sees the exception
SweepRaises ==
    /\ sw.pc = "raised"
    /\ sw' = SweepIdle
    /\ runs' = [Noted("after", files) EXCEPT ![Len(runs)].status = "raised"]
    /\ last' = Did("sweep_raised", 0)
    /\ files' = files
    /\ SweepFrame

NextSweep ==
    \/ SweepCall
    \/ SweepDirStep
    \/ SweepFileStep
    \/ SweepUnlinkFailsStep
    \/ SweepReturns
    \/ SweepRaises

SpecSweep == InitSweep /\ [][NextSweep]_vars

\* ------------------------------------------------------------------------
\* Claims about the retention sweep
\* ------------------------------------------------------------------------
Ended(k) == k \in DOMAIN runs /\ runs[k].status # "running"
Removed(k) == runs[k].before \ runs[k].after

\* C7: a call of the sweep removes the segment files older than the cutoff
\* and no younger one, in every camera directory: the 49 hours old segments
\* are gone after it and the 47 hours old ones are kept (a file whose own
\* deletion raised an error is left out of the account).
C7_RemovesExactlyExpired ==
    \A k \in DOMAIN runs :
        Ended(k) =>
            \A f \in runs[k].before :
                /\ ~Expired(f, runs[k].cutoff) => f \in runs[k].after
                /\ (Expired(f, runs[k].cutoff) /\ f \notin runs[k].failed)
                   => f \notin runs[k].after

\* C8: the second of two calls in succession at the same time, with no
\* segment written in between, deletes nothing (but, at most, a file whose
\* deletion raised an error in the first call).
C8_SecondSweepDeletesNothing ==
    (Ended(1) /\ Ended(2)) => Removed(2) \subseteq runs[1].failed

\* C11: a call of the sweep in which the deletion of one segment file raised
\* an error is not aborted by it: the call returns, and every other expired
\* segment, of the same and of the other camera directories, is deleted by
\* that call.
C11_DeletionErrorDoesNotAbort ==
    \A k \in DOMAIN runs :
        (Ended(k) /\ runs[k].failed # {}) =>
            /\ runs[k].status = "returned"
            /\ \A f \in runs[k].before \ runs[k].failed :
                  Expired(f, runs[k].cutoff) => f \notin runs[k].after

\* ------------------------------------------------------------------------
\* The health loop with its inline sweep: the coordinator starts on a
\* recordings directory that holds segment files of earlier runs, edge
\* nodes register, the loop probes them, starts start_recording threads and
\* calls cleanup_old_recordings after each pass.  The loop's thread is never
\* suspended for ever: each of its steps is taken when it stays possible
\* (every probe has a timeout of 5 seconds, line 262).
\* ------------------------------------------------------------------------
InitLoop ==
    /\ cameras = <<>>
    /\ next_id = 1
    /\ events = <<>>
    /\ recording_processes = <<>>
    /\ procs = [p \in Pids |-> NoProc]
    /\ threads = EmptyBag
    /\ hc = HcIdle
    /\ del = NoDelete
    /\ clock = 0
    /\ dirs \in SUBSET (1..MaxRecCams)
    /\ files \in SUBSET Segments(dirs)
    /\ sw = SweepIdle
    /\ runs = <<>>
    /\ went_online = [cur |-> {}, prev |-> {}]
    /\ probe_failed = {}
    /\ InitEdge
    /\ last = Did("init", 0)

\* the steps of the loop and of its sweep, with nothing recorded about them
LoopCommit == HcCommit /\ UNCHANGED <<went_online, probe_failed>>
LoopProbe == HcProbeOk \/ \E r \in ProbeResults : HcProbeFail(r)
LoopSweepDir == SweepDir /\ runs' = runs
LoopSweepFile == SweepFile /\ runs' = runs
LoopSweepUnlinkFails == SweepUnlinkFails /\ runs' = runs

NextLoop ==
    \/ \E u \in Users : RecRegister(u)
    \/ \E th \in BagToSet(threads) : ThreadCheck(th)
    \/ \E th \in BagToSet(threads) : ThreadSpawn(th)
    \/ \E th \in BagToSet(threads) : ThreadSpawnFails(th)
    \/ \E th \in BagToSet(threads) : ThreadLog(th)
    \/ \E th \in BagToSet(threads) : ThreadLogBusy(th)
    \/ HcWake
    \/ HcProbeOk
    \/ \E r \in ProbeResults : HcProbeFail(r)
    \/ LoopCommit
    \/ LoopSweepDir
    \/ LoopSweepFile
    \/ LoopSweepUnlinkFails
    \/ HcCleanupReturns
    \/ HcCleanupRaises

FairLoop ==
    /\ WF_vars(HcWake)
    /\ WF_vars(LoopProbe)
    /\ WF_vars(LoopCommit)
    /\ WF_vars(LoopSweepDir)
    /\ WF_vars(LoopSweepFile \/ LoopSweepUnlinkFails)
    /\ WF_vars(HcCleanupReturns)
    /\ WF_vars(HcCleanupRaises)

SpecLoop == InitLoop /\ [][NextLoop]_vars /\ FairLoop

\* ------------------------------------------------------------------------
\* Claims about the health loop
\* ------------------------------------------------------------------------
\* C12: the loop never stops: whenever a pass has ended its probes, whatever
\* failed in it, a later pass runs and goes through every camera that was
\* registered with an address when it began.
C12_LoopNeverStops ==
    (hc.pc = "cleanup") ~> (hc.pc = "probing" /\ hc.cams = <<>>)

StopCall(i) ==
    /\ i <= MaxRecCams
    /\ StopPop(i)

NextStop ==
    \/ \E u \in Users : RecRegister(u)
    \/ \E i \in CamIds : StopCall(i)
    \/ StopTerminate
    \/ StopNothing
    \/ StopWaitExits
    \/ StopWaitTimeout
    \/ StopKill
    \/ StopLog
    \/ StopLogBusy
    \/ DeleteRows
    \/ DeleteDbBusy
    \/ \E th \in BagToSet(threads) : ThreadCheck(th)
    \/ \E th \in BagToSet(threads) : ThreadSpawn(th)
    \/ \E th \in BagToSet(threads) : ThreadLog(th)
    \/ \E th \in BagToSet(threads) : ThreadLogBusy(th)
    \/ \E p \in Pids : ProcExit(p)
    \/ HcWake
    \/ HcProbeOk
    \/ \E r \in ProbeResults : HcProbeFail(r)
    \/ LoopCommit
    \/ HcCleanupReturns

SpecStop == Init /\ [][NextStop]_vars

\* ------------------------------------------------------------------------
\* Claims about stop_recording
\* ------------------------------------------------------------------------
\* the steps by which a call of stop_recording ends: it returns without or
\* with its event, or the error of its event leaves it
StopEnds == {"stop_noop", "stop_logged", "stop_log_failed"}

RecordingStops(log) == Len(SelectSeq(log, LAMBDA e : e.event_type = "recording_stop"))

\* C14: stop_recording on a running session is a two-phase cancellation:
\* termination is requested after the handle was popped, the kill is issued
\* only when the bounded wait has expired, and when the call returns the
\* process is not running and the process table has no handle for the
\* camera.
C14_TwoPhaseStop ==
    [][/\ last'.op = "stop_terminate" => del.pc = "popped"
       /\ last'.op = "stop_kill" => del.pc = "timeout"
       /\ last'.op = "stop_logged"
          => /\ procs'[del.proc].st # "running"
             /\ last'.cam \notin DOMAIN recording_processes']_vars

C16_RemoveLeavesNothing ==
    last.op = "deleted"
    => /\ last.cam \notin DOMAIN cameras
       /\ \A k \in DOMAIN events : events[k].camera_id # last.cam
       /\ last.cam \notin DOMAIN recording_processes

\* ------------------------------------------------------------------------
\* Edge node: CameraStream (pi_camera_client.py lines 62-131)
\* ------------------------------------------------------------------------
Frames == 1..MaxFrame
Qualities == {70, 95}

\* cv2.imencode(".jpg", frame, [IMWRITE_JPEG_QUALITY, quality]).tobytes()
Jpeg(frame, quality) == <<"jpeg", frame, quality>>

\* the frame that a JPEG buffer shows (cv2.imdecode)
Decoded(buf) == buf[2]

\* get_frame_jpeg, lines 119-126, under self.lock
FrameJpeg(quality) ==
    IF stream.last_frame = NoFrame THEN NoJpeg ELSE Jpeg(stream.last_frame, quality)

\* start(), lines 74-91: the capture is opened and the read loop started, or
\* the capture does not open and start() returns False
StreamStart(opened) ==
    /\ stream.pc = "init"
    /\ stream' = IF opened
                   THEN [stream EXCEPT !.cap = "open", !.running = TRUE, !.pc = "loop"]
                   ELSE [stream EXCEPT !.cap = "closed", !.pc = "failed"]
    /\ last' = Did(IF opened THEN "stream_started" ELSE "stream_failed", 0)
    /\ UNCHANGED <<server, relay, jpeg, good, motion, etime, emitted, posts, rest>>

\* line 94: while self.running
StreamLoopTest ==
    /\ stream.pc = "loop"
    /\ stream' = [stream EXCEPT !.pc = IF stream.running THEN "read" ELSE "exit"]
    /\ last' = Did(IF stream.running THEN "loop_on" ELSE "loop_exit", 0)
    /\ UNCHANGED <<server, relay, jpeg, good, motion, etime, emitted, posts, rest>>

\* lines 95, 108-117: cap.read() returns a frame, which is stored under
\* self.lock; the frame counter restarts when the fps window is over
StreamReadOk(frame, fps_due) ==
    /\ stream.pc = "read"
    /\ stream.cap = "open"
    /\ fps_due \/ stream.frame_count < MaxFrameCount
    /\ stream' = [stream EXCEPT !.last_frame = frame, !.pc = "loop",
                                !.frame_count = IF fps_due THEN 0 ELSE @ + 1]
    /\ good' = frame
    /\ last' = Did("read_ok", 0)
    /\ UNCHANGED <<server, relay, jpeg, motion, etime, emitted, posts, rest>>

\* faulty variant: a failed read drops the held frame
StreamReadFails_DropsFrame ==
    /\ stream.pc = "read"
    /\ stream' = [stream EXCEPT !.pc = "wait", !.last_frame = NoFrame]
    /\ last' = Did("read_failed", 0)
    /\ UNCHANGED <<server, relay, jpeg, good, motion, etime, emitted, posts, rest>>

\* lines 95-98: cap.read() returns ret False (always so on a capture that
\* is not open); the loop goes to its sleep of 5 seconds
StreamReadFails ==
    /\ stream.pc = "read"
    /\ stream' = [stream EXCEPT !.pc = "wait"]
    /\ last' = Did("read_failed", 0)
    /\ UNCHANGED <<server, relay, jpeg, good, motion, etime, emitted, posts, rest>>

\* lines 99-106: after the sleep the capture is released and a new one is
\* created, which is open or not
StreamReconnect(opened) ==
    /\ stream.pc = "wait"
    /\ stream' = [stream EXCEPT !.cap = IF opened THEN "open" ELSE "closed",
                                !.pc = "loop"]
    /\ last' = Did(IF opened THEN "reconnected" ELSE "reconnect_failed", 0)
    /\ UNCHANGED <<server, relay, jpeg, good, motion, etime, emitted, posts, rest>>

\* stop(), lines 128-131
StreamStop ==
    /\ stream.running
    /\ stream' = [stream EXCEPT !.running = FALSE,
                                !.cap = IF @ = "none" THEN @ ELSE "closed"]
    /\ last' = Did("stream_stopped", 0)
    /\ UNCHANGED <<server, relay, jpeg, good, motion, etime, emitted, posts, rest>>

\* /snapshot (quality 95, line 373) and /stream (quality 70, line 354) call
\* get_frame_jpeg
GetFrameJpeg(quality) ==
    /\ stream.pc # "init"
    /\ jpeg' = FrameJpeg(quality)
    /\ last' = Did("get_frame", 0)
    /\ UNCHANGED <<server, relay, stream, good, motion, etime, emitted, posts, rest>>

\* ------------------------------------------------------------------------
\* Edge node: MotionDetector (pi_camera_client.py lines 240-321)
\* ------------------------------------------------------------------------
\* time.time() on the edge node, in half seconds
EdgeNow == HalfSecondsPerSecond * Epoch + etime

\* what one iteration of the detection loop can take: its sleep of half a
\* second, or that and the processing and the push, up to just under the
\* cooldown
Elapsed == {1, HalfSecondsPerSecond * cooldown - 1}

\* lines 264-267: the blurred grayscale image of the decoded frame
Gray(buf) == <<"gray", Decoded(buf)>>

\* lines 275-284: a contour larger than min_area exists between the two
\* images; there is none between two equal images
MotionDetected(prev, gray, moved) == moved /\ prev # gray

\* faulty variant: the cooldown test is dropped
CooldownOver_Always(now, last_alert_time) == TRUE

\* line 287: (now - self.last_alert_time) > self.cooldown
CooldownOver(now, last_alert_time) ==
    (now - last_alert_time) > HalfSecondsPerSecond * cooldown

\* faulty variant: the trim keeps the oldest events
Kept_Oldest(evs) ==
    IF Len(evs) > EVENTS_MAX THEN SubSeq(evs, 1, EVENTS_KEPT) ELSE evs

\* lines 294-297: append, and keep the last 500 events beyond 1000
Kept(evs) ==
    IF Len(evs) > EVENTS_MAX
      THEN SubSeq(evs, Len(evs) - EVENTS_KEPT + 1, Len(evs))
      ELSE evs

\* start(), lines 250-254; main() starts the detector after the stream
DetectStart ==
    /\ ~motion.running
    /\ stream.pc \notin {"init", "failed"}
    /\ motion' = [motion EXCEPT !.running = TRUE]
    /\ last' = Did("detect_started", 0)
    /\ UNCHANGED <<server, relay, stream, jpeg, good, etime, emitted, posts, rest>>

\* stop(), lines 320-321
DetectStop ==
    /\ motion.running
    /\ motion' = [motion EXCEPT !.running = FALSE]
    /\ last' = Did("detect_stopped", 0)
    /\ UNCHANGED <<server, relay, stream, jpeg, good, etime, emitted, posts, rest>>

\* faulty variant: a POST that fails is sent once more
NotifyServer_Retries(ps, at, sent) ==
    IF sent THEN Append(ps, [at |-> at, delivered |-> TRUE])
    ELSE ps \o <<[at |-> at, delivered |-> FALSE], [at |-> at, delivered |-> FALSE]>>

\* _notify_server, lines 306-318: one requests.post; what it raises is
\* logged and dropped
NotifyServer(ps, at, sent) == Append(ps, [at |-> at, delivered |-> sent])

\* faulty variant: a tick that emits nothing keeps the old baseline
DetectTick_KeepsBaseline(moved, sent, d) ==
    /\ motion.running
    /\ etime + d <= MaxTime
    /\ etime' = etime + d
    /\ jpeg' = FrameJpeg(DEFAULT_QUALITY)
    /\ LET buf == FrameJpeg(DEFAULT_QUALITY)
           now == EdgeNow
       IN IF buf = NoJpeg
            THEN /\ last' = Did("motion_noframe", 0)
                 /\ UNCHANGED <<motion, emitted, posts, rest>>
          ELSE IF motion.prev_gray = NoGray
            THEN /\ motion' = [motion EXCEPT !.prev_gray = Gray(buf)]
                 /\ last' = Did("motion_baseline", 0)
                 /\ UNCHANGED <<emitted, posts, rest>>
          ELSE IF MotionDetected(motion.prev_gray, Gray(buf), moved)
                  /\ CooldownOver(now, motion.last_alert_time)
            THEN /\ motion' = [motion EXCEPT
                                  !.last_alert_time = now,
                                  !.events = Kept(Append(@, [type |-> "motion", at |-> now])),
                                  !.prev_gray = Gray(buf)]
                 /\ emitted' = Append(emitted, now)
                 /\ posts' = NotifyServer(posts, now, sent)
                 /\ last' = Did(IF sent THEN "motion_pushed" ELSE "motion_unsent", 0)
          ELSE /\ motion' = motion
               /\ last' = Did(IF MotionDetected(motion.prev_gray, Gray(buf), moved)
                                THEN "motion_suppressed" ELSE "motion_none", 0)
               /\ UNCHANGED <<emitted, posts, rest>>
    /\ UNCHANGED <<server, relay, rest, stream, good>>

\* one iteration of _detect_loop, lines 257-304, and the time it takes;
\* moved: the scene changed by more than min_area; sent: the push of
\* _notify_server (lines 306-318) went through
DetectTick(moved, sent, d) ==
    /\ motion.running
    /\ etime + d <= MaxTime
    /\ etime' = etime + d
    /\ jpeg' = FrameJpeg(DEFAULT_QUALITY)
    /\ LET buf == FrameJpeg(DEFAULT_QUALITY)
           now == EdgeNow
       IN IF buf = NoJpeg
            THEN /\ last' = Did("motion_noframe", 0)
                 /\ UNCHANGED <<motion, emitted, posts, rest>>
          ELSE IF motion.prev_gray = NoGray
            THEN /\ motion' = [motion EXCEPT !.prev_gray = Gray(buf)]
                 /\ last' = Did("motion_baseline", 0)
                 /\ UNCHANGED <<emitted, posts, rest>>
          ELSE IF MotionDetected(motion.prev_gray, Gray(buf), moved)
                  /\ CooldownOver(now, motion.last_alert_time)
            THEN /\ motion' = [motion EXCEPT
                                  !.last_alert_time = now,
                                  !.events = Kept(Append(@, [type |-> "motion", at |-> now])),
                                  !.prev_gray = Gray(buf)]
                 /\ emitted' = Append(emitted, now)
                 /\ posts' = NotifyServer(posts, now, sent)
                 /\ last' = Did(IF sent THEN "motion_pushed" ELSE "motion_unsent", 0)
          ELSE /\ motion' = [motion EXCEPT !.prev_gray = Gray(buf)]
               /\ last' = Did(IF MotionDetected(motion.prev_gray, Gray(buf), moved)
                                THEN "motion_suppressed" ELSE "motion_none", 0)
               /\ UNCHANGED <<emitted, posts, rest>>
    /\ UNCHANGED <<server, relay, rest, stream, good>>

\* ------------------------------------------------------------------------
\* Edge node: the relay endpoints behind require_auth
\* (pi_camera_client.py lines 330-416)
\* ------------------------------------------------------------------------
\* CONFIG as main() fills it from the command line, lines 482-493
CONFIG == [pi_user |-> "u1", pi_pass |-> "p1"]

\* request.authorization: none, or the user name and password of the header
Passwords == {"p1", "p2"}
Credentials == {NoAuth} \cup [username : Users, password : Passwords]

\* faulty variant: the password is not compared
check_auth_UserOnly(auth) == auth # NoAuth /\ auth.username = CONFIG.pi_user

\* check_auth, lines 330-335
check_auth(auth) ==
    /\ auth # NoAuth
    /\ auth.username = CONFIG.pi_user /\ auth.password = CONFIG.pi_pass

Text(t) == [NoBody EXCEPT !.text = t]

Response(route, auth, code, body) ==
    [route |-> route, auth |-> auth, code |-> code, body |-> body]

\* app.run is reached only after camera_stream.start() returned True
\* (lines 496-511)
Serving == stream.pc \notin {"init", "failed"}

\* require_auth, lines 337-345: the 401 response of the wrapper
Unauthorized(route, auth) ==
    /\ http' = Response(route, auth, 401, Text("Unauthorized"))
    /\ last' = Did("denied", 0)
    /\ UNCHANGED <<server, stream, jpeg, good, motion, etime, emitted, posts, rest, isapi>>

\* GET /stream, lines 348-366: the response is a generator, whose
\* iterations are the calls GetFrameJpeg(70)
RelayStream(auth) ==
    /\ Serving
    /\ IF ~check_auth(auth) THEN Unauthorized("/stream", auth)
       ELSE /\ http' = Response("/stream", auth, 200, Text("multipart"))
            /\ last' = Did("served", 0)
            /\ UNCHANGED <<server, stream, jpeg, good, motion, etime, emitted, posts, rest, isapi>>

\* GET /snapshot, lines 369-376
RelaySnapshot(auth) ==
    /\ Serving
    /\ IF ~check_auth(auth) THEN Unauthorized("/snapshot", auth)
       ELSE /\ jpeg' = FrameJpeg(95)
            /\ http' = IF FrameJpeg(95) = NoJpeg
                         THEN Response("/snapshot", auth, 503, Text("No frame available"))
                         ELSE Response("/snapshot", auth, 200, [NoBody EXCEPT !.jpeg = FrameJpeg(95)])
            /\ last' = Did("served", 0)
            /\ UNCHANGED <<server, stream, good, motion, etime, emitted, posts, rest, isapi>>

\* GET /status, lines 379-389
RelayStatus(auth) ==
    /\ Serving
    /\ IF ~check_auth(auth) THEN Unauthorized("/status", auth)
       ELSE /\ http' = Response("/status", auth, 200,
                                [NoBody EXCEPT !.connected = stream.cap = "open",
                                                !.count = Len(motion.events)])
            /\ last' = Did("served", 0)
            /\ UNCHANGED <<server, stream, jpeg, good, motion, etime, emitted, posts, rest, isapi>>

\* camera_set_zoom, lines 159-208: the actions it knows
ZoomActions == {"stop", "zoomIn", "zoomOut", "autoFocus"}
ZoomInputs == {"zoomIn", "stop", "spin"}

\* POST /zoom, lines 392-400, with a JSON body; answered: the PUT to the
\* camera went through (otherwise requests raises and camera_set_zoom
\* returns an error)
RelayZoom(auth, action, answered) ==
    /\ Serving
    /\ IF ~check_auth(auth) THEN Unauthorized("/zoom", auth)
       ELSE /\ Len(isapi) < MaxIsapi
            /\ isapi' = IF action \in ZoomActions /\ answered
                          THEN Append(isapi, action) ELSE isapi
            /\ http' = Response("/zoom", auth, 200,
                                IF action \in ZoomActions /\ answered
                                  THEN Text(action) ELSE Text("error"))
            /\ last' = Did("served", 0)
            /\ UNCHANGED <<server, stream, jpeg, good, motion, etime, emitted, posts, rest>>

\* GET /device_info, lines 403-408, and camera_get_device_info, 224-234
RelayDeviceInfo(auth, answered) ==
    /\ Serving
    /\ IF ~check_auth(auth) THEN Unauthorized("/device_info", auth)
       ELSE /\ Len(isapi) < MaxIsapi
            /\ isapi' = IF answered THEN Append(isapi, "deviceInfo") ELSE isapi
            /\ http' = Response("/device_info", auth, 200,
                                IF answered THEN Text("info") ELSE Text("error"))
            /\ last' = Did("served", 0)
            /\ UNCHANGED <<server, stream, jpeg, good, motion, etime, emitted, posts, rest>>

\* motion_detector.events[-limit:], line 416: the python slice
LastOf(evs, limit) ==
    LET n == Len(evs)
        from == IF limit > 0 THEN (IF limit >= n THEN 1 ELSE n - limit + 1)
                ELSE IF limit = 0 THEN 1
                ELSE (IF -limit >= n THEN n + 1 ELSE 1 - limit)
    IN SubSeq(evs, from, n)
Limits == {DEFAULT_LIMIT, 1}

\* GET /events, lines 411-416
RelayEvents(auth, limit) ==
    /\ Serving
    /\ IF ~check_auth(auth) THEN Unauthorized("/events", auth)
       ELSE /\ http' = Response("/events", auth, 200,
                                [NoBody EXCEPT !.events = LastOf(motion.events, limit)])
            /\ last' = Did("served", 0)
            /\ UNCHANGED <<server, stream, jpeg, good, motion, etime, emitted, posts, rest, isapi>>

\* The edge node as relay: the stream and its read loop, the detector as
\* it stands at some instant, and requests to the six endpoints
RingEvent(at) == [type |-> "motion", at |-> at]
InitRelay ==
    /\ cameras = <<>>
    /\ next_id = 1
    /\ events = <<>>
    /\ recording_processes = <<>>
    /\ procs = [p \in Pids |-> NoProc]
    /\ threads = EmptyBag
    /\ hc = HcIdle
    /\ del = NoDelete
    /\ dirs = {}
    /\ files = {}
    /\ clock = 0
    /\ sw = SweepIdle
    /\ runs = <<>>
    /\ went_online = [cur |-> {}, prev |-> {}]
    /\ probe_failed = {}
    /\ stream = NewStream
    /\ jpeg = NoJpeg
    /\ good = NoFrame
    /\ etime = 0
    /\ emitted = <<>>
    /\ posts = <<>>
    /\ lock = NoLock
    /\ reg = NoRegistration
    /\ http = NoRequest
    /\ isapi = <<>>
    /\ last = Did("init", 0)
    /\ \E evs \in {<<>>, <<RingEvent(EdgeNow)>>,
                    <<RingEvent(EdgeNow), RingEvent(EdgeNow + HalfSecondsPerSecond * cooldown + 1)>>} :
          motion = [NewDetector EXCEPT !.events = evs]

NextRelay ==
    \/ \E opened \in BOOLEAN : StreamStart(opened)
    \/ StreamLoopTest
    \/ \E f \in Frames, due \in BOOLEAN : StreamReadOk(f, due)
    \/ StreamReadFails
    \/ \E opened \in BOOLEAN : StreamReconnect(opened)
    \/ \E auth \in Credentials : RelayStream(auth)
    \/ \E auth \in Credentials : RelaySnapshot(auth)
    \/ \E auth \in Credentials : RelayStatus(auth)
    \/ \E auth \in Credentials, a \in ZoomInputs, answered \in BOOLEAN : RelayZoom(auth, a, answered)
    \/ \E auth \in Credentials, answered \in BOOLEAN : RelayDeviceInfo(auth, answered)
    \/ \E auth \in Credentials, limit \in Limits : RelayEvents(auth, limit)

SpecRelay == InitRelay /\ [][NextRelay]_vars

\* C22: a request to any of the six relay endpoints whose credentials are
\* missing, or whose user name or password differs from the configured one,
\* is answered 401 and leaves the edge node as it was (no frame is fetched,
\* nothing is sent to the camera); a request with both equal is not answered
\* 401, and the six routes are the only ones.
C22_EndpointsRequireCredentials ==
    [][last'.op \in {"served", "denied"} =>
          /\ http'.route \in {"/stream", "/snapshot", "/status", "/zoom",
                               "/device_info", "/events"}
          /\ IF /\ http'.auth # NoAuth
                /\ http'.auth.username = "u1"
                /\ http'.auth.password = "p1"
               THEN http'.code # 401 /\ last'.op = "served"
               ELSE /\ http'.code = 401
                    /\ last'.op = "denied"
                    /\ UNCHANGED <<stream, jpeg, good, motion, isapi>>]_vars

C22_Witness ==
    /\ last.op = "denied"
    /\ http.route = "/zoom"
    /\ http.auth = [username |-> "u1", password |-> "p2"]
    /\ http.code = 401
    /\ Len(isapi) = 1

\* ------------------------------------------------------------------------
\* The edge node as frame source (the stream, its read loop and the relay
\* endpoints that fetch the held frame) and as motion detector (the stream
\* and the detection loop)
\* ------------------------------------------------------------------------
NextFrame ==
    \/ \E opened \in BOOLEAN : StreamStart(opened)
    \/ StreamLoopTest
    \/ \E f \in Frames, due \in BOOLEAN : StreamReadOk(f, due)
    \/ StreamReadFails
    \/ \E opened \in BOOLEAN : StreamReconnect(opened)
    \/ StreamStop
    \/ \E q \in Qualities : GetFrameJpeg(q)

SpecFrame == Init /\ [][NextFrame]_vars

NextMotion ==
    \/ \E opened \in BOOLEAN : StreamStart(opened)
    \/ StreamLoopTest
    \/ \E f \in Frames, due \in BOOLEAN : StreamReadOk(f, due)
    \/ StreamReadFails
    \/ \E opened \in BOOLEAN : StreamReconnect(opened)
    \/ DetectStart
    \/ DetectStop
    \/ \E moved \in BOOLEAN, sent \in BOOLEAN, d \in Elapsed : DetectTick(moved, sent, d)

SpecMotion == Init /\ [][NextMotion]_vars

\* ------------------------------------------------------------------------
\* The detection loop on a ring that already holds events: the stream is
\* open and holds a frame, the detector has taken its baseline and has
\* emitted n events, the last of them just over the cooldown ago
\* ------------------------------------------------------------------------
RingLengths == {0, EVENTS_KEPT, EVENTS_MAX - 1, EVENTS_MAX}
Spacing == HalfSecondsPerSecond * cooldown + 1
RingOf(n) == [k \in 1..n |-> RingEvent(HalfSecondsPerSecond * Epoch - (n - k + 1) * Spacing)]

InitRing ==
    /\ cameras = <<>>
    /\ next_id = 1
    /\ events = <<>>
    /\ recording_processes = <<>>
    /\ procs = [p \in Pids |-> NoProc]
    /\ threads = EmptyBag
    /\ hc = HcIdle
    /\ del = NoDelete
    /\ dirs = {}
    /\ files = {}
    /\ clock = 0
    /\ sw = SweepIdle
    /\ runs = <<>>
    /\ went_online = [cur |-> {}, prev |-> {}]
    /\ probe_failed = {}
    /\ stream = [NewStream EXCEPT !.pc = "loop", !.cap = "open", !.running = TRUE,
                                  !.last_frame = 1]
    /\ good = 1
    /\ jpeg = Jpeg(1, DEFAULT_QUALITY)
    /\ etime = 0
    /\ \E n \in RingLengths :
          /\ motion = [running |-> TRUE, prev_gray |-> Gray(Jpeg(1, DEFAULT_QUALITY)),
                       last_alert_time |-> IF n = 0 THEN 0 ELSE RingOf(n)[n].at,
                       events |-> RingOf(n)]
          /\ emitted = [k \in 1..n |-> RingOf(n)[k].at]
          /\ posts = [k \in 1..n |-> [at |-> RingOf(n)[k].at, delivered |-> TRUE]]
    /\ lock = NoLock
    /\ reg = NoRegistration
    /\ http = NoRequest
    /\ isapi = <<>>
    /\ last = Did("init", 0)

NextRing ==
    \/ StreamLoopTest
    \/ \E f \in Frames, due \in BOOLEAN : StreamReadOk(f, due)
    \/ \E moved \in BOOLEAN, sent \in BOOLEAN, d \in Elapsed : DetectTick(moved, sent, d)

SpecRing == InitRing /\ [][NextRing]_vars

\* ------------------------------------------------------------------------
\* CameraStream statement by statement: the read loop's update of the held
\* frame under self.lock (lines 95, 108-117) and get_frame_jpeg (lines
\* 119-126), called by the detection loop and by the request threads of the
\* relay (app.run(threaded=True), line 511)
\* ------------------------------------------------------------------------
LoopThread == <<"loop", 0>>
ReaderThread(r) == <<"reader", r>>

\* faulty variant: the lock never makes a thread wait
LockFree_Always == TRUE

\* threading.Lock: `with self.lock` goes on only when no thread holds it
LockFree == lock.holder = {}

\* line 95: cap.read() returns a frame
LoopRead(frame) ==
    /\ stream.pc = "read"
    /\ stream.cap = "open"
    /\ stream.frame_count < MaxFrameCount
    /\ stream' = [stream EXCEPT !.pc = "acquire"]
    /\ lock' = [lock EXCEPT !.frame = frame]
    /\ last' = Did("frame_read", 0)
    /\ UNCHANGED <<server, relay, reg, jpeg, good, motion, etime, emitted, posts>>

\* line 108: with self.lock
LoopAcquire ==
    /\ stream.pc = "acquire"
    /\ LockFree
    /\ stream' = [stream EXCEPT !.pc = "store"]
    /\ lock' = [lock EXCEPT !.holder = @ \cup {LoopThread}]
    /\ last' = Did("loop_locked", 0)
    /\ UNCHANGED <<server, relay, reg, jpeg, good, motion, etime, emitted, posts>>

\* line 109: self.last_frame = frame
LoopStore ==
    /\ stream.pc = "store"
    /\ stream' = [stream EXCEPT !.pc = "count", !.last_frame = lock.frame]
    /\ good' = lock.frame
    /\ last' = Did("frame_stored", 0)
    /\ UNCHANGED <<server, relay, rest, jpeg, motion, etime, emitted, posts>>

\* line 110: self.frame_count += 1
LoopCount ==
    /\ stream.pc = "count"
    /\ stream' = [stream EXCEPT !.pc = "release", !.frame_count = @ + 1]
    /\ last' = Did("frame_counted", 0)
    /\ UNCHANGED <<server, relay, rest, jpeg, good, motion, etime, emitted, posts>>

\* the with block ends; lines 112-117: the frame counter restarts when
\* the fps window is over
LoopRelease(fps_due) ==
    /\ stream.pc = "release"
    /\ stream' = [stream EXCEPT !.pc = "loop",
                                !.frame_count = IF fps_due THEN 0 ELSE @]
    /\ lock' = [lock EXCEPT !.holder = @ \ {LoopThread}]
    /\ last' = Did("read_ok", 0)
    /\ UNCHANGED <<server, relay, reg, jpeg, good, motion, etime, emitted, posts>>

\* a thread calls get_frame_jpeg(quality)
ReaderCall(r, quality) ==
    /\ stream.pc \notin {"init", "failed"}
    /\ lock.readers[r].pc = "idle"
    /\ lock' = [lock EXCEPT !.readers[r] = [pc |-> "acquire", quality |-> quality,
                                            got |-> NoJpeg]]
    /\ last' = Did("reader_called", r)
    /\ UNCHANGED <<server, relay, reg, stream, jpeg, good, motion, etime, emitted, posts>>

\* line 120: with self.lock
ReaderAcquire(r) ==
    /\ lock.readers[r].pc = "acquire"
    /\ LockFree
    /\ lock' = [lock EXCEPT !.readers[r].pc = "test",
                            !.holder = @ \cup {ReaderThread(r)}]
    /\ last' = Did("reader_locked", r)
    /\ UNCHANGED <<server, relay, reg, stream, jpeg, good, motion, etime, emitted, posts>>

\* lines 121-122: if self.last_frame is None: return None
ReaderTest(r) ==
    /\ lock.readers[r].pc = "test"
    /\ lock' = [lock EXCEPT !.readers[r].pc =
                                IF stream.last_frame = NoFrame THEN "release" ELSE "encode"]
    /\ last' = Did("reader_tested", r)
    /\ UNCHANGED <<server, relay, reg, stream, jpeg, good, motion, etime, emitted, posts>>

\* lines 123-126: imencode of self.last_frame
ReaderEncode(r) ==
    /\ lock.readers[r].pc = "encode"
    /\ lock' = [lock EXCEPT !.readers[r].pc = "release",
                            !.readers[r].got = Jpeg(stream.last_frame, lock.readers[r].quality)]
    /\ last' = Did("reader_encoded", r)
    /\ UNCHANGED <<server, relay, reg, stream, jpeg, good, motion, etime, emitted, posts>>

\* the return leaves the with block
ReaderReturn(r) ==
    /\ lock.readers[r].pc = "release"
    /\ jpeg' = lock.readers[r].got
    /\ lock' = [lock EXCEPT !.readers[r] = NoLock.readers[r],
                            !.holder = @ \ {ReaderThread(r)}]
    /\ last' = Did("get_frame", 0)
    /\ UNCHANGED <<server, relay, reg, stream, good, motion, etime, emitted, posts>>

NextLock ==
    \/ \E opened \in BOOLEAN : StreamStart(opened)
    \/ StreamLoopTest
    \/ \E f \in Frames : LoopRead(f)
    \/ LoopAcquire
    \/ LoopStore
    \/ LoopCount
    \/ \E due \in BOOLEAN : LoopRelease(due)
    \/ StreamReadFails
    \/ \E opened \in BOOLEAN : StreamReconnect(opened)
    \/ \E r \in Readers, q \in Qualities \cup {DEFAULT_QUALITY} : ReaderCall(r, q)
    \/ \E r \in Readers : ReaderAcquire(r)
    \/ \E r \in Readers : ReaderTest(r)
    \/ \E r \in Readers : ReaderEncode(r)
    \/ \E r \in Readers : ReaderReturn(r)

SpecLock == Init /\ [][NextLock]_vars

\* ------------------------------------------------------------------------
\* Edge node: register_with_server (pi_camera_client.py lines 423-461), run
\* by the thread that main starts once the stream has started (lines
\* 497-507)
\* ------------------------------------------------------------------------
REGISTER_ATTEMPTS == 5

\* what a POST to /api/register can come to: status 200, another status,
\* an exception of requests.post (timeout of 10 seconds included)
PostOutcomes == {"ok", "status", "error"}

\* faulty variant: one attempt too many
MoreAttempts_OneMore(n) == n <= REGISTER_ATTEMPTS

\* line 444: for attempt in range(5)
MoreAttempts(n) == n < REGISTER_ATTEMPTS

\* lines 427-442: the local address is found or "unknown", the payload is
\* built
RegStart(ip_known) ==
    /\ stream.running
    /\ reg.pc = "idle"
    /\ reg' = [reg EXCEPT !.pc = "post",
                          !.local_ip = IF ip_known THEN "A" ELSE "unknown"]
    /\ last' = Did("reg_started", 0)
    /\ UNCHANGED <<server, relay, lock, stream, jpeg, good, motion, etime, emitted, posts>>

\* lines 445-456: one requests.post; status 200 returns True, another
\* status and an exception are logged
RegPost(outcome) ==
    /\ reg.pc = "post"
    /\ reg' = [reg EXCEPT !.attempt = @ + 1,
                          !.answers = Append(@, outcome),
                          !.pc = IF outcome = "ok" THEN "done" ELSE "sleep",
                          !.result = IF outcome = "ok" THEN "success" ELSE @]
    /\ last' = Did(IF outcome = "ok" THEN "registered" ELSE "reg_attempt_failed", 0)
    /\ UNCHANGED <<server, relay, lock, stream, jpeg, good, motion, etime, emitted, posts>>

\* lines 457-461: time.sleep(5), then the next attempt, or after the last
\* one the error is logged and False returned
RegSleep ==
    /\ reg.pc = "sleep"
    /\ reg' = IF MoreAttempts(reg.attempt)
                THEN [reg EXCEPT !.pc = "post"]
                ELSE [reg EXCEPT !.pc = "done", !.result = "failure"]
    /\ last' = Did(IF MoreAttempts(reg.attempt) THEN "reg_retry" ELSE "reg_gave_up", 0)
    /\ UNCHANGED <<server, relay, lock, stream, jpeg, good, motion, etime, emitted, posts>>

NextBoot ==
    \/ \E opened \in BOOLEAN : StreamStart(opened)
    \/ \E known \in BOOLEAN : RegStart(known)
    \/ \E o \in PostOutcomes : RegPost(o)
    \/ RegSleep

\* the registration thread is scheduled, requests.post returns or raises
\* within its timeout, and time.sleep(5) returns
FairBoot ==
    /\ WF_vars(\E known \in BOOLEAN : RegStart(known))
    /\ WF_vars(\E o \in PostOutcomes : RegPost(o))
    /\ WF_vars(RegSleep)

SpecBoot == Init /\ [][NextBoot]_vars /\ FairBoot

\* ------------------------------------------------------------------------
\* Claims about the edge node
\* ------------------------------------------------------------------------
\* C6: any two motion events that the detection loop emitted are at least
\* the cooldown apart, whatever the ticks and whichever of them detect
\* motion.
C6_EventsCooldownApart ==
    \A i, j \in DOMAIN emitted :
        i < j => emitted[j] - emitted[i] >= HalfSecondsPerSecond * cooldown

C6_Witness ==
    /\ Len(emitted) >= 2
    /\ emitted[2] - emitted[1] = HalfSecondsPerSecond * cooldown + 1
    /\ last.op = "motion_suppressed"

\* C10: once a frame has been stored, every call of get_frame_jpeg returns
\* a JPEG, never None, and it is the JPEG of the last frame read with
\* success, also after a failed read and during the reconnection.
C10_HeldFrameNeverNone ==
    (last.op = "get_frame" /\ good # NoFrame)
    => /\ jpeg # NoJpeg
       /\ Decoded(jpeg) = good

C10_Witness ==
    /\ last.op = "get_frame"
    /\ stream.pc = "wait"
    /\ stream.cap # "open"
    /\ good # NoFrame
    /\ jpeg \in {Jpeg(good, q) : q \in Qualities}

C26_EmittedIffCooldownElapsed ==
    [][last'.op \in {"motion_pushed", "motion_unsent", "motion_suppressed"}
          => ((last'.op # "motion_suppressed")
              <=> (HalfSecondsPerSecond * Epoch + etime) - motion.last_alert_time
                      >= HalfSecondsPerSecond * cooldown)]_vars

\* C27: a tick without frame leaves the detector (baseline, last-alert
\* time, ring) as it was; the first tick with a frame makes the image of
\* that frame the baseline and emits nothing; every later tick with a frame
\* makes the image of its frame the baseline, whether it emitted an event,
\* suppressed one or detected nothing.
C27_RollingBaseline ==
    [][etime' # etime =>
          IF stream.last_frame = NoFrame
            THEN last'.op = "motion_noframe" /\ UNCHANGED <<motion, emitted>>
          ELSE /\ motion'.prev_gray = <<"gray", stream.last_frame>>
               /\ IF motion.prev_gray = <<"none">>
                    THEN /\ last'.op = "motion_baseline"
                         /\ motion' = [motion EXCEPT !.prev_gray = motion'.prev_gray]
                         /\ emitted' = emitted
                    ELSE last'.op \in {"motion_pushed", "motion_unsent",
                                       "motion_suppressed", "motion_none"}]_vars

\* a tick whose detection the cooldown suppressed has replaced the baseline
\* by the image of its frame
C27_Witness ==
    /\ last.op = "motion_suppressed"
    /\ emitted # <<>>
    /\ stream.last_frame # NoFrame
    /\ motion.prev_gray = <<"gray", stream.last_frame>>

\* C28: every emitted event is pushed with one POST, made by the tick that
\* emitted it, and no tick makes a POST for anything else; when the POST
\* fails the event is nevertheless the last of the ring and the last-alert
\* time is its time, the detector keeps running, and any later POST is the
\* one of a later event, more than the cooldown after it.
C28_PushBestEffort ==
    [][/\ IF emitted' # emitted
            THEN /\ Len(posts') = Len(posts) + 1
                 /\ SubSeq(posts', 1, Len(posts)) = posts
                 /\ posts'[Len(posts')].at = emitted'[Len(emitted')]
            ELSE posts' = posts
       /\ last'.op = "motion_unsent"
          => /\ ~posts'[Len(posts')].delivered
             /\ motion'.events # <<>>
             /\ motion'.events[Len(motion'.events)].at = posts'[Len(posts')].at
             /\ motion'.last_alert_time = posts'[Len(posts')].at
             /\ motion'.running
       /\ \A i, j \in DOMAIN posts' :
             i < j => posts'[j].at - posts'[i].at > HalfSecondsPerSecond * cooldown]_vars

\* after an event whose POST failed, a later event was emitted and pushed
C28_Witness ==
    /\ last.op = "motion_pushed"
    /\ Len(posts) = 2
    /\ ~posts[1].delivered
    /\ posts[2].delivered
    /\ Len(motion.events) = 2
    /\ motion.events[1].at = posts[1].at

\* C30: after a failed read the stream first releases its capture and only
\* then waits: whenever the read loop is in the wait that follows a failed
\* read, the capture is not open.
C30_ReleasedBeforeWait ==
    stream.pc = "wait" => stream.cap # "open"

\* C31: while the read loop is inside its update of the held frame (from
\* taking the lock to leaving the with block), no thread that called
\* get_frame_jpeg is between its test and its return, whatever the number
\* of readers; and a reader returns the JPEG of the frame that was held
\* when it tested it.
C31_FrameLockExcludes ==
    /\ stream.pc \in {"store", "count", "release"}
       => \A r \in Readers : lock.readers[r].pc \notin {"test", "encode", "release"}
    /\ \A r \in Readers :
          lock.readers[r].pc = "release" /\ lock.readers[r].got # <<"none">>
          => lock.readers[r].got = <<"jpeg", stream.last_frame, lock.readers[r].quality>>

\* the loop is about to replace a held frame while every reader waits for
\* the lock
C31_Witness ==
    /\ stream.pc = "store"
    /\ stream.last_frame # NoFrame
    /\ lock.frame # stream.last_frame
    /\ \A r \in Readers : lock.readers[r].pc = "acquire"

\* C32: every running encoder process is the process that the process
\* table entry of its camera refers to (a handle that a running call of
\* stop_recording has popped and is terminating set aside).
C32_RunningProcessHasEntry ==
    \A p \in Pids :
        procs[p].st = "running" /\ p # del.proc
        => EntryOf(recording_processes, procs[p].cam) = p

\* C33: a camera id that was given out and whose camera has been removed
\* has no handle in the process table and no running encoder process.
C33_RemovedCameraHasNoEncoder ==
    \A c \in CamIds :
        c < next_id /\ c \notin DOMAIN cameras
        => /\ c \notin DOMAIN recording_processes
           /\ LiveProcs(c) = {}

\* C34: once stop() has returned (running is False) the stream holds no
\* open capture: the read loop opens no new session after the stop and
\* leaves none open when it ends.
C34_StoppedStreamHoldsNoSession ==
    ~stream.running => stream.cap # "open"

\* C35: a registration that has started ends; it has made at most 5
\* attempts, every attempt but the last was not answered with status 200,
\* it returns success exactly when its last attempt was answered with 200,
\* and failure exactly when 5 attempts failed or got another status.
C35_RegistrationTerminates ==
    /\ [](/\ reg.attempt = Len(reg.answers)
          /\ reg.attempt <= 5
          /\ \A k \in 1..(Len(reg.answers) - 1) : reg.answers[k] # "ok"
          /\ (reg.answers # <<>> /\ reg.answers[Len(reg.answers)] = "ok")
             <=> reg.result = "success"
          /\ reg.result = "failure"
             <=> /\ reg.pc = "done"
                 /\ Len(reg.answers) = 5
                 /\ \A k \in 1..5 : reg.answers[k] # "ok"
          /\ reg.pc = "done" <=> reg.result # "none")
    /\ (reg.pc # "idle" ~> reg.pc = "done")

\* the registration gave up after a fifth attempt, having met both an
\* exception and a status other than 200
C35_Witness ==
    /\ reg.pc = "done"
    /\ reg.result = "failure"
    /\ reg.attempt = 5
    /\ \E j, k \in 1..5 : reg.answers[j] = "status" /\ reg.answers[k] = "error"

====
